---------------------------- MODULE Spec2Model ----------------------------
(***************************************************************************)
(* SwiftLogistics middleware: the warehouse package-tracking protocol      *)
(* stack.  Four parts of the repository are modelled, each under one or    *)
(* more specifications over the shared variables:                          *)
(*   SpecCodec   the frame codec   (WMSProtocol.createMessage/parseMessage)*)
(*   SpecCorruption the frame codec fed frames with one character changed   *)
(*   SpecWMS     the lifecycle engine (Package, PackageManager, WMSHandler)*)
(*   SpecBridge  the correlator of the TCP-HTTP adapter (TCPHTTPAdapter)   *)
(*   SpecHub     the hub: connections, heartbeat, incoming data and the    *)
(*               replies to it, the receive route broadcasting             *)
(*   SpecFanout  the hub broadcasting the updates of the receive and store *)
(*               routes, locations of any length included                  *)
(*   SpecTrailer the frame codec fed frames with a replaced checksum or an *)
(*               extra byte, and inputs below the minimum length           *)
(*   SpecPicks   the lifecycle engine under concurrent pick and            *)
(*               fulfillment requests of several HTTP callers              *)
(*   SpecLink    the adapter's TCP link: close, error, reconnect timers    *)
(*               and connect callbacks                                     *)
(*   SpecManager the PackageManager updated directly with any status       *)
(*   SpecRegistry the hub's live set: connect, error, close, heartbeat     *)
(*   SpecSubscribers the PackageManager with handlers registered through   *)
(*               on(), some of which throw                                 *)
(* Strings that are only compared are TLA+ strings; strings that are cut,  *)
(* measured or summed (frames, JSON text) are sequences of character codes.*)
(***************************************************************************)
EXTENDS Integers, Sequences, FiniteSets, TLC

VARIABLES
    \* ---- lifecycle engine (PackageManager / WMSHandler) ----
    packages,       \* PackageManager.packages: Map packageId -> Package
    packageOrder,   \* the keys of PackageManager.packages in the order the Map iterates them (insertion order)
    tcpAttached,    \* WMSHandler.tcpServer is not null
    eventHandlers,  \* PackageManager.eventHandlers: per event type, the handlers registered through on() after the WMSHandler's own, in registration order
    invoked,        \* what the last emitEvent did with those handlers: the ones it called, in order, and the ones whose exception it logged
    lastOp,         \* outcome of the last WMSHandler call (what the caller and the subscribers saw)
    pickCalls,      \* per HTTP caller, its pick or fulfillment request in flight and how its pickPackage promise settled
    \* ---- correlator of the TCP-HTTP adapter (TCPHTTPAdapter) ----
    now,            \* Date.now()
    tcpUp,          \* this.tcpClient && !this.tcpClient.destroyed
    pendingRequests,\* this.pendingRequests: Map requestId -> time sent
    tcpResponses,   \* this.tcpResponses: Map requestId -> response payload
    calls,          \* one record per HTTP call: where it is in its handler and how its promise settled
    outbox,         \* requestIds written to the TCP socket
    lateSeen,       \* calls already rejected by timeout for which a matching STS_RSP arrived afterwards
    tcpConnected,   \* the connect callback of this.tcpClient has run
    otherSockets,   \* sockets of earlier connectToWMSTCP calls that are not destroyed: how many are connecting, how many connected
    reconnectTimers,\* pending setTimeout callbacks of reconnectTCP
    closePending,   \* destroyed sockets whose 'close' event has not been emitted yet
    staleHeartbeats,\* a setInterval heartbeat timer of an earlier connectToWMSTCP call is still running beside the newest one
    crashed,        \* an exception left a callback uncaught: the adapter process has exited
    hubReachable,   \* the WMS TCP server accepts connections
    \* ---- frame codec (WMSProtocol) ----
    msgType,        \* the type argument of createMessage
    msgPayload,     \* the payload argument of createMessage
    clock,          \* Date.now().toString() at the time of createMessage
    frame,          \* the string createMessage returned
    received,       \* the string handed to parseMessage
    parsed,         \* what parseMessage returned and logged
    corruption,     \* the character changed between createMessage and parseMessage, if any
    codecPc,        \* "input", "created", "arrived" (received but not yet parsed) or "parsed"
    \* ---- hub (WMSProtocol connections, WMSTCPServer, the server's message handler) ----
    open,           \* sockets the server accepted and that have not closed
    clients,        \* WMSProtocol.clients: the live-connection Set, as the sequence of its members in insertion order
    writeThrows,    \* sockets on which client.write throws
    errored,        \* open sockets whose 'error' listener has run and whose 'close' event is still to come
    lastWrites,     \* per socket, the strings passed to client.write by the last callback and by the promise reactions run since, in order
    lastIn,         \* the socket and data of the last callback if it was a 'data' callback, and what it and the reactions run since did, in order
    microtasks      \* the promise reactions the last 'data' callback queued and that have not run yet, in order

wmsVars == <<packages, packageOrder, tcpAttached, eventHandlers, invoked, lastOp, pickCalls>>
linkVars == <<tcpConnected, otherSockets, reconnectTimers, closePending, staleHeartbeats, crashed, hubReachable>>
bridgeVars == <<now, tcpUp, pendingRequests, tcpResponses, calls, outbox, lateSeen, linkVars>>

codecVars == <<msgType, msgPayload, clock, frame, received, parsed, corruption, codecPc>>

hubVars == <<open, clients, writeThrows, errored, lastWrites, lastIn, microtasks>>

vars == <<packages, packageOrder, tcpAttached, eventHandlers, invoked, lastOp, pickCalls,
          now, tcpUp, pendingRequests, tcpResponses, calls, outbox, lateSeen,
          tcpConnected, otherSockets, reconnectTimers, closePending, staleHeartbeats, crashed, hubReachable,
          msgType, msgPayload, clock, frame, received, parsed, corruption, codecPc,
          open, clients, writeThrows, errored, lastWrites, lastIn, microtasks>>

-----------------------------------------------------------------------------
(* Bounds and input sets of the lifecycle engine *)

MaxHistory == 3

PackageIds == {"PKG001", "PKG002"}
\* "" is a missing (falsy) clientId
ClientIds == {"", "CLIENT001", "CLIENT002"}
Locations == {"A1", "B2"}
Vehicles == {"VH001"}
Null == "null"
NoDescription == <<>>

-----------------------------------------------------------------------------
(* Package model *)

validStatuses == <<"received", "stored", "picked", "loaded">>

Range(s) == {s[i] : i \in DOMAIN s}

\* the members of WMSProtocol.clients
Live == Range(clients)

\* Package.addEvent: push {eventType, description, location-at-time-of-event}
addEvent(pkg, eventType, description) ==
    [pkg EXCEPT !.events = Append(@, [eventType |-> eventType,
                                       description |-> description,
                                       location |-> pkg.location])]

\* updateStatus that writes the package before it looks at the status given
updateStatus_WritesFirst(pkg, newStatus, location, description) ==
    LET written == [pkg EXCEPT !.status = newStatus,
                               !.location = IF location # Null THEN location ELSE @,
                               !.updatedAt = @ + 1] IN
    IF newStatus \notin Range(validStatuses)
    THEN [threw |-> TRUE, pkg |-> written]
    ELSE [threw |-> FALSE, pkg |-> addEvent(written, newStatus, description)]

\* Package.updateStatus: throws on a status outside validStatuses, otherwise
\* writes status, writes location when truthy, sets updatedAt to the time of
\* this write (counted in writes to the package), appends one event.
updateStatus(pkg, newStatus, location, description) ==
    IF newStatus \notin Range(validStatuses)
    THEN [threw |-> TRUE, pkg |-> pkg]
    ELSE [threw |-> FALSE,
          pkg |-> addEvent(
                    [pkg EXCEPT !.status = newStatus,
                                !.location = IF location # Null THEN location ELSE @,
                                !.updatedAt = @ + 1],
                    newStatus,
                    IF description # NoDescription
                    THEN description
                    ELSE <<"Package status updated to ", newStatus>>)]

\* Package.assignToVehicle
assignToVehicle(pkg, vehicleId) ==
    updateStatus([pkg EXCEPT !.assignedVehicle = vehicleId], "loaded", Null,
                 <<"Package loaded onto vehicle ", vehicleId>>)

\* new Package(packageId, clientId, ...): status received, one seed event
Package(packageId, clientId) ==
    addEvent([packageId |-> packageId,
              clientId |-> clientId,
              status |-> "received",
              location |-> Null,
              assignedVehicle |-> Null,
              updatedAt |-> 0,
              events |-> <<>>],
             "received", <<"Package received from client">>)

-----------------------------------------------------------------------------
(* PackageManager *)

\* PackageManager.getPackage: the package or null
hasPackage(pkgs, packageId) == packageId \in DOMAIN pkgs

\* Set.add and Map.set on the order a Set or a Map iterates in: a new key goes
\* last, a key already present keeps its place
insertionOrder(order, k) == IF k \in Range(order) THEN order ELSE Append(order, k)

\* Set.delete and Map.delete on that order
orderDelete(order, k) == SelectSeq(order, LAMBDA x : x # k)

\* Map.set
mapSet(m, k, v) == [x \in (DOMAIN m) \cup {k} |-> IF x = k THEN v ELSE m[x]]

\* PackageManager.addPackage: this.packages.set(pkg.packageId, pkg)
addPackage(pkgs, pkg) == mapSet(pkgs, pkg.packageId, pkg)

\* WMSTCPServer.broadcastPackageUpdate: the frame handed to protocol.broadcast,
\* none for an event type outside the map
messageTypeMap(eventType) ==
    CASE eventType = "received" -> "PKG_RCV"
      [] eventType = "stored"   -> "PKG_STR"
      [] eventType = "picked"   -> "PKG_PCK"
      [] eventType = "loaded"   -> "PKG_LDD"
      [] OTHER -> "none"

broadcastPackageUpdate(eventType, pkg) ==
    IF messageTypeMap(eventType) # "none"
    THEN << [type |-> messageTypeMap(eventType),
             packageId |-> pkg.packageId,
             status |-> pkg.status,
             location |-> pkg.location,
             assignedVehicle |-> pkg.assignedVehicle] >>
    ELSE <<>>

\* WMSHandler.setupEventListeners: the handler of each PackageManager event
\* broadcasts when a tcpServer is attached
listenerBroadcast(managerEvent, pkg, attached) ==
    IF ~attached THEN <<>>
    ELSE CASE managerEvent = "package_received" -> broadcastPackageUpdate("received", pkg)
           [] managerEvent = "package_updated"  -> broadcastPackageUpdate(pkg.status, pkg)
           [] managerEvent = "package_loaded"   -> broadcastPackageUpdate("loaded", pkg)
           [] OTHER -> <<>>

\* PackageManager.emitEvent: one notification per registered handler
emitEvent(managerEvent, pkg) ==
    << [event |-> managerEvent, packageId |-> pkg.packageId, status |-> pkg.status] >>

\* ---- handlers registered through PackageManager.on ----

\* a handler: which registration it came from, and whether it throws when called
MaxHandlers == 2
Handler(id, throws) == [id |-> id, throws |-> throws]

\* this.eventHandlers.get(eventType) || []
handlersFor(handlersMap, eventType) ==
    IF eventType \in DOMAIN handlersMap THEN handlersMap[eventType] ELSE <<>>

\* PackageManager.on: the handler is pushed on the list of its event type
on(handlersMap, eventType, handler) ==
    mapSet(handlersMap, eventType, Append(handlersFor(handlersMap, eventType), handler))

\* nothing called, nothing logged, nothing thrown to the caller of emitEvent
NoCalls == [called |-> <<>>, logged |-> <<>>, threw |-> FALSE]

\* the forEach of emitEvent without its try/catch: the first handler that
\* throws ends the loop and the exception reaches the caller
RECURSIVE forEachHandler_NoCatch(_, _, _)
forEachHandler_NoCatch(handlers, i, out) ==
    IF i > Len(handlers) THEN out
    ELSE LET called == [out EXCEPT !.called = Append(@, handlers[i].id)] IN
         IF handlers[i].throws THEN [called EXCEPT !.threw = TRUE]
         ELSE forEachHandler_NoCatch(handlers, i + 1, called)

\* the forEach of emitEvent: try { handler(data) } catch (error) { console.error(...) }
RECURSIVE forEachHandler(_, _, _)
forEachHandler(handlers, i, out) ==
    IF i > Len(handlers) THEN out
    ELSE LET called == [out EXCEPT !.called = Append(@, handlers[i].id)] IN
         forEachHandler(handlers, i + 1,
             IF handlers[i].throws THEN [called EXCEPT !.logged = Append(@, handlers[i].id)]
             ELSE called)

\* PackageManager.emitEvent over the handlers registered through on()
emitToHandlers(handlersMap, eventType) ==
    forEachHandler(handlersFor(handlersMap, eventType), 1, NoCalls)

-----------------------------------------------------------------------------
(* WMSHandler operations.  OpResult is what the call returned or threw and  *)
(* what it made observable: subscriber notifications and broadcast frames.  *)

OpResult(op, packageId, error, current, emitted, broadcast, history) ==
    [op |-> op, packageId |-> packageId, error |-> error,
     current |-> current, expected |-> IF error = "InvalidTransition" THEN "stored" ELSE "",
     emitted |-> emitted, broadcast |-> broadcast, history |-> history]

NoOp == OpResult("none", "", "none", "", <<>>, <<>>, <<>>)

\* the history cap of the model: a successful transition appends one event
Room(packageId) ==
    hasPackage(packages, packageId) => Len(packages[packageId].events) < MaxHistory

\* a Load may append the one event past the cap, so that a package that went
\* through receive, store and pick can still be loaded
RoomToLoad(packageId) ==
    hasPackage(packages, packageId) => Len(packages[packageId].events) <= MaxHistory

\* a Pick that would fail appends nothing and needs no room
RoomToPick(packageId) ==
    (hasPackage(packages, packageId) /\ packages[packageId].status = "stored")
        => Len(packages[packageId].events) < MaxHistory

\* WMSHandler.receivePackage
receivePackage(packageId, clientId) ==
    IF packageId = "" \/ clientId = ""
    THEN /\ lastOp' = OpResult("receive", packageId, "Required", "", <<>>, <<>>, <<>>)
         /\ UNCHANGED <<packages, packageOrder>>
    ELSE LET pkg == Package(packageId, clientId) IN
         /\ packages' = addPackage(packages, pkg)
         /\ packageOrder' = insertionOrder(packageOrder, packageId)
         /\ lastOp' = OpResult("receive", packageId, "none", "",
                               emitEvent("package_received", pkg),
                               listenerBroadcast("package_received", pkg, tcpAttached),
                               <<>>)

\* storePackage that creates the package when the id is unknown (an upsert)
storePackage_Upsert(packageId, location) ==
    LET old == IF hasPackage(packages, packageId) THEN packages[packageId]
               ELSE Package(packageId, "CLIENT001")
        pkg == updateStatus(old, "stored", location, <<"Package stored at ", location>>).pkg IN
    /\ packages' = mapSet(packages, packageId, pkg)
    /\ packageOrder' = insertionOrder(packageOrder, packageId)
    /\ lastOp' = OpResult("store", packageId, "none", "",
                          emitEvent("package_updated", pkg),
                          listenerBroadcast("package_updated", pkg, tcpAttached),
                          <<>>)

\* PackageManager.updatePackageStatus followed by the handler's null check
storePackage(packageId, location) ==
    IF ~hasPackage(packages, packageId)
    THEN /\ lastOp' = OpResult("store", packageId, "PackageNotFound", "", <<>>, <<>>, <<>>)
         /\ UNCHANGED <<packages, packageOrder>>
    ELSE LET pkg == updateStatus(packages[packageId], "stored", location,
                                 <<"Package stored at ", location>>).pkg IN
         /\ packages' = [packages EXCEPT ![packageId] = pkg]
         /\ UNCHANGED packageOrder
         /\ lastOp' = OpResult("store", packageId, "none", "",
                               emitEvent("package_updated", pkg),
                               listenerBroadcast("package_updated", pkg, tcpAttached),
                               <<>>)

\* pickPackage without its status check (the transition guard left out)
pickPackage_NoStatusCheck(packageId) ==
    IF ~hasPackage(packages, packageId)
    THEN /\ lastOp' = OpResult("pick", packageId, "PackageNotFound", "", <<>>, <<>>, <<>>)
         /\ UNCHANGED <<packages, packageOrder>>
    ELSE LET pkg == updateStatus(packages[packageId], "picked", Null,
                                 <<"Package picked for order fulfillment">>).pkg IN
         /\ packages' = [packages EXCEPT ![packageId] = pkg]
         /\ UNCHANGED packageOrder
         /\ lastOp' = OpResult("pick", packageId, "none", "",
                               emitEvent("package_updated", pkg),
                               listenerBroadcast("package_updated", pkg, tcpAttached),
                               <<>>)

\* WMSHandler.pickPackage
pickPackage(packageId) ==
    IF ~hasPackage(packages, packageId)
    THEN /\ lastOp' = OpResult("pick", packageId, "PackageNotFound", "", <<>>, <<>>, <<>>)
         /\ UNCHANGED <<packages, packageOrder>>
    ELSE IF packages[packageId].status # "stored"
    THEN /\ lastOp' = OpResult("pick", packageId, "InvalidTransition",
                               packages[packageId].status, <<>>, <<>>, <<>>)
         /\ UNCHANGED <<packages, packageOrder>>
    ELSE LET pkg == updateStatus(packages[packageId], "picked", Null,
                                 <<"Package picked for order fulfillment">>).pkg IN
         /\ packages' = [packages EXCEPT ![packageId] = pkg]
         /\ UNCHANGED packageOrder
         /\ lastOp' = OpResult("pick", packageId, "none", "",
                               emitEvent("package_updated", pkg),
                               listenerBroadcast("package_updated", pkg, tcpAttached),
                               <<>>)

\* loadPackage that loads only a picked package
loadPackage_OnlyPicked(packageId, vehicleId) ==
    IF hasPackage(packages, packageId) /\ packages[packageId].status # "picked"
    THEN /\ lastOp' = OpResult("load", packageId, "InvalidTransition",
                               packages[packageId].status, <<>>, <<>>, <<>>)
         /\ UNCHANGED <<packages, packageOrder>>
    ELSE IF ~hasPackage(packages, packageId)
    THEN /\ lastOp' = OpResult("load", packageId, "PackageNotFound", "", <<>>, <<>>, <<>>)
         /\ UNCHANGED <<packages, packageOrder>>
    ELSE LET pkg == assignToVehicle(packages[packageId], vehicleId).pkg IN
         /\ packages' = [packages EXCEPT ![packageId] = pkg]
         /\ UNCHANGED packageOrder
         /\ lastOp' = OpResult("load", packageId, "none", "",
                               emitEvent("package_loaded", pkg),
                               listenerBroadcast("package_loaded", pkg, tcpAttached),
                               <<>>)

\* loadPackage whose status change is announced as an update and as a load
loadPackage_EmitsTwice(packageId, vehicleId) ==
    IF ~hasPackage(packages, packageId)
    THEN /\ lastOp' = OpResult("load", packageId, "PackageNotFound", "", <<>>, <<>>, <<>>)
         /\ UNCHANGED <<packages, packageOrder>>
    ELSE LET pkg == assignToVehicle(packages[packageId], vehicleId).pkg IN
         /\ packages' = [packages EXCEPT ![packageId] = pkg]
         /\ UNCHANGED packageOrder
         /\ lastOp' = OpResult("load", packageId, "none", "",
                               emitEvent("package_updated", pkg) \o emitEvent("package_loaded", pkg),
                               listenerBroadcast("package_updated", pkg, tcpAttached)
                                   \o listenerBroadcast("package_loaded", pkg, tcpAttached),
                               <<>>)

\* WMSHandler.loadPackage over PackageManager.assignPackageToVehicle
loadPackage(packageId, vehicleId) ==
    IF ~hasPackage(packages, packageId)
    THEN /\ lastOp' = OpResult("load", packageId, "PackageNotFound", "", <<>>, <<>>, <<>>)
         /\ UNCHANGED <<packages, packageOrder>>
    ELSE LET pkg == assignToVehicle(packages[packageId], vehicleId).pkg IN
         /\ packages' = [packages EXCEPT ![packageId] = pkg]
         /\ UNCHANGED packageOrder
         /\ lastOp' = OpResult("load", packageId, "none", "",
                               emitEvent("package_loaded", pkg),
                               listenerBroadcast("package_loaded", pkg, tcpAttached),
                               <<>>)

\* WMSHandler.trackPackage: read-only
trackPackage(packageId) ==
    /\ UNCHANGED <<packages, packageOrder>>
    /\ IF ~hasPackage(packages, packageId)
       THEN lastOp' = OpResult("track", packageId, "PackageNotFound", "", <<>>, <<>>, <<>>)
       ELSE lastOp' = OpResult("track", packageId, "none", packages[packageId].status,
                               <<>>, <<>>, packages[packageId].events)

\* PackageManager.getAllPackages: Array.from(this.packages.values()), the
\* packages in the insertion order of their keys
getAllPackages(pkgs, order) == [i \in 1..Len(order) |-> pkgs[order[i]]]

\* PackageManager.getPackagesByStatus
getPackagesByStatus(pkgs, order, status) ==
    SelectSeq(getAllPackages(pkgs, order), LAMBDA pkg : pkg.status = status)

\* the keys of statusCounts in the order the forEach of getStatistics creates
\* them: each status where a package of the list first has it
RECURSIVE statusKeys(_, _, _)
statusKeys(list, i, keys) ==
    IF i > Len(list) THEN keys
    ELSE statusKeys(list, i + 1, insertionOrder(keys, list[i].status))

\* the forEach of getStatistics with each status set to 1 instead of counted up
RECURSIVE countStatuses_NoIncrement(_, _, _)
countStatuses_NoIncrement(list, i, statusCounts) ==
    IF i > Len(list) THEN statusCounts
    ELSE countStatuses_NoIncrement(list, i + 1, mapSet(statusCounts, list[i].status, 1))

\* the forEach of getStatistics:
\* statusCounts[pkg.status] = (statusCounts[pkg.status] || 0) + 1
RECURSIVE countStatuses(_, _, _)
countStatuses(list, i, statusCounts) ==
    IF i > Len(list) THEN statusCounts
    ELSE countStatuses(list, i + 1,
             mapSet(statusCounts, list[i].status,
                    (IF list[i].status \in DOMAIN statusCounts
                     THEN statusCounts[list[i].status] ELSE 0) + 1))

\* PackageManager.getStatistics, as the object it returns (lastUpdated left
\* out); statusOrder is the order of the keys of statusBreakdown
packageStats(pkgs, order) ==
    [totalPackages |-> Len(getAllPackages(pkgs, order)),
     statusBreakdown |-> countStatuses(getAllPackages(pkgs, order), 1, [x \in {} |-> 0]),
     statusOrder |-> statusKeys(getAllPackages(pkgs, order), 1, <<>>),
     readyForPickup |-> Len(getPackagesByStatus(pkgs, order, "stored")),
     loaded |-> Len(getPackagesByStatus(pkgs, order, "loaded"))]

\* statusBreakdown[status], 0 for a status that is absent from it
countOf(stats, status) ==
    IF status \in DOMAIN stats.statusBreakdown THEN stats.statusBreakdown[status] ELSE 0

\* WMSHandler.getPackages: the filter applies when status is truthy
getPackages(pkgs, order, status) ==
    LET list == IF status # Null /\ status # ""
                THEN getPackagesByStatus(pkgs, order, status)
                ELSE getAllPackages(pkgs, order) IN
    [packages |-> list, count |-> Len(list)]

Receive == \E id \in PackageIds, c \in ClientIds :
    /\ receivePackage(id, c)
    /\ UNCHANGED <<tcpAttached, eventHandlers, invoked, pickCalls, bridgeVars, codecVars, hubVars>>

Store == \E id \in PackageIds, loc \in Locations :
    /\ Room(id)
    /\ storePackage(id, loc)
    /\ UNCHANGED <<tcpAttached, eventHandlers, invoked, pickCalls, bridgeVars, codecVars, hubVars>>

Pick == \E id \in PackageIds :
    /\ RoomToPick(id)
    /\ pickPackage(id)
    /\ UNCHANGED <<tcpAttached, eventHandlers, invoked, pickCalls, bridgeVars, codecVars, hubVars>>

Load == \E id \in PackageIds, v \in Vehicles :
    /\ RoomToLoad(id)
    /\ loadPackage(id, v)
    /\ UNCHANGED <<tcpAttached, eventHandlers, invoked, pickCalls, bridgeVars, codecVars, hubVars>>

Track == \E id \in PackageIds :
    /\ trackPackage(id)
    /\ UNCHANGED <<tcpAttached, eventHandlers, invoked, pickCalls, bridgeVars, codecVars, hubVars>>

\* statuses that are not package statuses
InvalidStatuses == {"invalid_status", "", "STORED"}

\* PackageManager.updatePackageStatus called directly: null for an unknown id;
\* what Package.updateStatus throws passes to the caller, and the package stays
\* as updateStatus left it
updatePackageStatus(packageId, newStatus, location) ==
    IF ~hasPackage(packages, packageId)
    THEN /\ lastOp' = OpResult("update", packageId, "null", "", <<>>, <<>>, <<>>)
         /\ UNCHANGED <<packages, packageOrder>>
    ELSE LET r == updateStatus(packages[packageId], newStatus, location, NoDescription) IN
         /\ packages' = [packages EXCEPT ![packageId] = r.pkg]
         /\ UNCHANGED packageOrder
         /\ IF r.threw
            THEN lastOp' = OpResult("update", packageId, "InvalidStatus", "", <<>>, <<>>, <<>>)
            ELSE lastOp' = OpResult("update", packageId, "none", "",
                                    emitEvent("package_updated", r.pkg),
                                    listenerBroadcast("package_updated", r.pkg, tcpAttached),
                                    <<>>)

\* how many writes a package may have had before a direct update writes it
MaxUpdates == 1

RoomToUpdate(packageId) ==
    hasPackage(packages, packageId) => packages[packageId].updatedAt < MaxUpdates

\* the location argument: left out, or given
UpdateLocations == {Null, "A1"}

UpdatePackageStatus ==
    \E id \in PackageIds, st \in Range(validStatuses) \cup InvalidStatuses,
       loc \in UpdateLocations :
        /\ (st \in Range(validStatuses)) => RoomToUpdate(id)
        /\ updatePackageStatus(id, st, loc)
        /\ UNCHANGED <<tcpAttached, eventHandlers, invoked, pickCalls, bridgeVars, codecVars, hubVars>>

\* ---- the PackageManager with handlers registered by its user ----

\* the event type handlers are registered for
SubscribedEvents == {"package_updated"}

\* packageManager.on(eventType, handler)
Subscribe ==
    \E eventType \in SubscribedEvents, throws \in BOOLEAN :
        /\ Len(handlersFor(eventHandlers, eventType)) < MaxHandlers
        /\ eventHandlers' = on(eventHandlers, eventType,
                               Handler(Len(handlersFor(eventHandlers, eventType)) + 1, throws))
        /\ UNCHANGED <<packages, packageOrder, tcpAttached, invoked, lastOp, pickCalls, bridgeVars, codecVars, hubVars>>

\* the emitEvent call of an operation, when it makes one
Notified ==
    IF lastOp'.emitted = <<>> THEN UNCHANGED invoked
    ELSE invoked' = emitToHandlers(eventHandlers, lastOp'.emitted[1].event)

\* receivePackage with the user's handlers called by its emitEvent
SubscribedReceive ==
    \E id \in PackageIds :
        /\ receivePackage(id, "CLIENT001")
        /\ Notified
        /\ UNCHANGED <<tcpAttached, eventHandlers, pickCalls, bridgeVars, codecVars, hubVars>>

\* updatePackageStatus with the user's handlers called by its emitEvent
SubscribedUpdate ==
    \E id \in PackageIds, st \in Range(validStatuses) \cup InvalidStatuses :
        /\ (st \in Range(validStatuses)) => RoomToUpdate(id)
        /\ updatePackageStatus(id, st, Null)
        /\ Notified
        /\ UNCHANGED <<tcpAttached, eventHandlers, pickCalls, bridgeVars, codecVars, hubVars>>

-----------------------------------------------------------------------------
(* Concurrent callers of WMSHandler.pickPackage.  A call runs in segments:  *)
(* each segment is the code between two awaits and runs to completion       *)
(* before any other callback starts.                                        *)

MaxCallers == 2
Callers == 1..MaxCallers

NoCall == [pc |-> "idle", route |-> "none", packageId |-> "", at |-> 0, error |-> "none"]

\* pickPackage with an await between its status check and its write
pickSegments_AwaitBeforeWrite == << <<"check">>, <<"write">> >>

\* the body of the async pickPackage holds no await: the getPackage lookup, the
\* status check and updatePackageStatus are one segment
pickSegments == << <<"check", "write">> >>

\* history length of a package, 0 when it is unknown
historyLength(packageId) ==
    IF hasPackage(packages, packageId) THEN Len(packages[packageId].events) ELSE 0

\* the call of caller c runs segment k of pickPackage; the promise settles
\* with the last segment or with a throw
runSegment(c, route, packageId, at, k) ==
    LET seg == pickSegments[k]
        last == k = Len(pickSegments) IN
    /\ IF seg = <<"check", "write">> THEN pickPackage(packageId)
       ELSE IF seg = <<"check">>
       THEN /\ UNCHANGED <<packages, packageOrder>>
            /\ lastOp' = IF ~hasPackage(packages, packageId)
                         THEN OpResult("pick", packageId, "PackageNotFound", "", <<>>, <<>>, <<>>)
                         ELSE IF packages[packageId].status # "stored"
                         THEN OpResult("pick", packageId, "InvalidTransition",
                                       packages[packageId].status, <<>>, <<>>, <<>>)
                         ELSE OpResult("pick", packageId, "none", "", <<>>, <<>>, <<>>)
       ELSE pickPackage_NoStatusCheck(packageId)
    /\ pickCalls' = [pickCalls EXCEPT ![c] =
                        [pc |-> IF last \/ lastOp'.error # "none" THEN "settled" ELSE "suspended",
                         route |-> route, packageId |-> packageId, at |-> at,
                         error |-> lastOp'.error]]

\* the route handler of PUT /api/packages/:packageId/pick up to its await
PickRequest(c) == \E id \in PackageIds :
    /\ pickCalls[c].pc = "idle"
    /\ RoomToPick(id)
    /\ runSegment(c, "pick", id, historyLength(id), 1)
    /\ UNCHANGED <<tcpAttached, eventHandlers, invoked, bridgeVars, codecVars, hubVars>>

\* WMSHandler.handleOrderFulfillment up to its await: pickPackage is called
\* only for a package that is stored
FulfillRequest(c) == \E id \in PackageIds :
    /\ pickCalls[c].pc = "idle"
    /\ RoomToPick(id)
    /\ IF hasPackage(packages, id) /\ packages[id].status = "stored"
       THEN runSegment(c, "fulfill", id, historyLength(id), 1)
       ELSE /\ pickCalls' = [pickCalls EXCEPT ![c] =
                                [pc |-> "settled", route |-> "fulfill", packageId |-> id,
                                 at |-> historyLength(id), error |-> "NotPicked"]]
            /\ lastOp' = OpResult("fulfill", id, "none", "", <<>>, <<>>, <<>>)
            /\ UNCHANGED <<packages, packageOrder>>
    /\ UNCHANGED <<tcpAttached, eventHandlers, invoked, bridgeVars, codecVars, hubVars>>

\* the continuation of caller c runs: a call suspended at an await inside
\* pickPackage resumes with the next segment; after the promise has settled the
\* route handler goes on past its own await with res.json(result), or with the
\* catch block answering 400 (500 on the fulfillment route)
PickContinue(c) ==
    /\ pickCalls[c].pc \in {"suspended", "settled"}
    /\ IF pickCalls[c].pc = "suspended"
       THEN runSegment(c, pickCalls[c].route, pickCalls[c].packageId, pickCalls[c].at, 2)
       ELSE /\ pickCalls' = [pickCalls EXCEPT ![c] = NoCall]
            /\ lastOp' = NoOp
            /\ UNCHANGED <<packages, packageOrder>>
    /\ UNCHANGED <<tcpAttached, eventHandlers, invoked, bridgeVars, codecVars, hubVars>>

-----------------------------------------------------------------------------
(* Correlator of the TCP-HTTP adapter.  Time is counted in abstract ticks;   *)
(* WaitTimeout is the timeout argument of waitForTCPResponse in those ticks. *)

MaxRequests == 2
MaxNow == 3
WaitTimeout == 1

Requests == 1..MaxRequests
\* handlePackageStatus, handlePackageList: requestId = `status_${Date.now()}`, `list_${Date.now()}`
RequestKinds == {"status", "list"}
\* the body of an STS_RSP; the correlator passes it on unread
ResponseBodies == {"stored"}

NoId == [kind |-> "none", t |-> 0]
\* message.payload.requestId of a response that carries none
UndefinedId == [kind |-> "undefined", t |-> 0]
requestIdOf(kind, t) == [kind |-> kind, t |-> t]

TimeoutError == [requestId |-> NoId, body |-> "TCP response timeout"]

\* Map.delete
mapDelete(m, k) == [x \in (DOMAIN m) \ {k} |-> m[x]]

EmptyMap == [x \in {} |-> 0]

IdleCall == [pc |-> "idle", requestId |-> NoId, startTime |-> 0, settled |-> <<>>]

\* TCPHTTPAdapter.sendTCPMessage(message, requestId): write and track the
\* request, or throw when the socket is missing or destroyed
sendTCPMessage(requestId) ==
    IF tcpUp
    THEN [threw |-> FALSE,
          outbox |-> outbox \cup {requestId},
          pending |-> mapSet(pendingRequests, requestId, now)]
    ELSE [threw |-> TRUE, outbox |-> outbox, pending |-> pendingRequests]

\* checkResponse that goes on polling after it has delivered the response
checkResponse_KeepsPolling(r, id, startTime, pending) ==
    IF id \in DOMAIN tcpResponses
    THEN /\ calls' = [calls EXCEPT ![r] = [pc |-> "waiting", requestId |-> id, startTime |-> startTime,
                                            settled |-> Append(@.settled, [how |-> "resolve", value |-> tcpResponses[id]])]]
         /\ tcpResponses' = mapDelete(tcpResponses, id)
         /\ pendingRequests' = pending
    ELSE IF now - startTime > WaitTimeout
    THEN /\ calls' = [calls EXCEPT ![r] = [pc |-> "done", requestId |-> id, startTime |-> startTime,
                                            settled |-> Append(@.settled, [how |-> "reject", value |-> TimeoutError])]]
         /\ pendingRequests' = mapDelete(pending, id)
         /\ UNCHANGED tcpResponses
    ELSE /\ calls' = [calls EXCEPT ![r] = [pc |-> "waiting", requestId |-> id, startTime |-> startTime,
                                            settled |-> @.settled]]
         /\ pendingRequests' = pending
         /\ UNCHANGED tcpResponses

\* checkResponse that leaves the pending entry behind on timeout
checkResponse_NoCleanup(r, id, startTime, pending) ==
    IF id \in DOMAIN tcpResponses
    THEN /\ calls' = [calls EXCEPT ![r] = [pc |-> "done", requestId |-> id, startTime |-> startTime,
                                            settled |-> Append(@.settled, [how |-> "resolve", value |-> tcpResponses[id]])]]
         /\ tcpResponses' = mapDelete(tcpResponses, id)
         /\ pendingRequests' = pending
    ELSE IF now - startTime > WaitTimeout
    THEN /\ calls' = [calls EXCEPT ![r] = [pc |-> "done", requestId |-> id, startTime |-> startTime,
                                            settled |-> Append(@.settled, [how |-> "reject", value |-> TimeoutError])]]
         /\ pendingRequests' = pending
         /\ UNCHANGED tcpResponses
    ELSE /\ calls' = [calls EXCEPT ![r] = [pc |-> "waiting", requestId |-> id, startTime |-> startTime,
                                            settled |-> @.settled]]
         /\ pendingRequests' = pending
         /\ UNCHANGED tcpResponses

\* checkResponse, the closure of waitForTCPResponse(requestId, timeout): deliver
\* a stored response and delete it, else reject once the deadline has passed
\* and delete the pending entry, else poll again after 100 ms.  `pending` is
\* this.pendingRequests as the caller left it.
checkResponse(r, id, startTime, pending) ==
    IF id \in DOMAIN tcpResponses
    THEN /\ calls' = [calls EXCEPT ![r] = [pc |-> "done", requestId |-> id, startTime |-> startTime,
                                            settled |-> Append(@.settled, [how |-> "resolve", value |-> tcpResponses[id]])]]
         /\ tcpResponses' = mapDelete(tcpResponses, id)
         /\ pendingRequests' = pending
    ELSE IF now - startTime > WaitTimeout
    THEN /\ calls' = [calls EXCEPT ![r] = [pc |-> "done", requestId |-> id, startTime |-> startTime,
                                            settled |-> Append(@.settled, [how |-> "reject", value |-> TimeoutError])]]
         /\ pendingRequests' = mapDelete(pending, id)
         /\ UNCHANGED tcpResponses
    ELSE /\ calls' = [calls EXCEPT ![r] = [pc |-> "waiting", requestId |-> id, startTime |-> startTime,
                                            settled |-> @.settled]]
         /\ pendingRequests' = pending
         /\ UNCHANGED tcpResponses

\* handleStatusResponse that stores every response, pending or not
handleStatusResponse_StoresAlways(message) ==
    /\ pendingRequests' = mapDelete(pendingRequests, message.requestId)
    /\ tcpResponses' = mapSet(tcpResponses, message.requestId, message)

\* TCPHTTPAdapter.handleStatusResponse(message)
handleStatusResponse(message) ==
    IF message.requestId \in DOMAIN pendingRequests
    THEN /\ pendingRequests' = mapDelete(pendingRequests, message.requestId)
         /\ tcpResponses' = mapSet(tcpResponses, message.requestId, message)
    ELSE UNCHANGED <<pendingRequests, tcpResponses>>

\* the requests already rejected by timeout whose id a message carries
RejectedWith(id) ==
    {r \in Requests : /\ calls[r].requestId = id
                      /\ calls[r].settled # <<>>
                      /\ calls[r].settled[1].how = "reject"}

\* An HTTP call enters handlePackageStatus / handlePackageList: build the id,
\* send, and run waitForTCPResponse up to its first checkResponse().
HandleRequest(r) == \E kind \in RequestKinds :
    /\ calls[r].pc = "idle"
    /\ now + WaitTimeout < MaxNow
    /\ LET id == requestIdOf(kind, now)
           sent == sendTCPMessage(id) IN
       IF sent.threw
       THEN /\ calls' = [calls EXCEPT ![r].pc = "unavailable", ![r].requestId = id]
            /\ UNCHANGED <<pendingRequests, tcpResponses, outbox>>
       ELSE /\ outbox' = sent.outbox
            /\ checkResponse(r, id, now, sent.pending)
    /\ UNCHANGED <<now, tcpUp, lateSeen, linkVars, wmsVars, codecVars, hubVars>>

\* the 100 ms timer of a waiting call fires
PollTimer(r) ==
    /\ calls[r].pc = "waiting"
    /\ checkResponse(r, calls[r].requestId, calls[r].startTime, pendingRequests)
    /\ UNCHANGED <<now, tcpUp, outbox, lateSeen, linkVars, wmsVars, codecVars, hubVars>>

\* an STS_RSP frame reaches handleTCPResponse; the peer echoes an id it was
\* sent, or none
StatusResponse == \E id \in outbox \cup {UndefinedId}, b \in ResponseBodies :
    /\ handleStatusResponse([requestId |-> id, body |-> b])
    /\ lateSeen' = lateSeen \cup RejectedWith(id)
    /\ UNCHANGED <<now, tcpUp, calls, outbox, linkVars, wmsVars, codecVars, hubVars>>

Tick ==
    /\ now < MaxNow
    /\ now' = now + 1
    /\ UNCHANGED <<tcpUp, pendingRequests, tcpResponses, calls, outbox, lateSeen, linkVars, wmsVars, codecVars, hubVars>>

\* the requests and responses of the correlator, which no socket event touches
correlatorVars == <<now, pendingRequests, tcpResponses, calls, outbox, lateSeen>>

\* sockets that are not destroyed; reconnect timers, which will each make one
\* socket, and 'close' events still to come, which will each set one timer
LiveSockets == (IF tcpUp THEN 1 ELSE 0) + otherSockets.connecting + otherSockets.connected
PotentialSockets == LiveSockets + reconnectTimers + closePending

NoSockets == [connecting |-> 0, connected |-> 0]

\* reconnectTCP: setTimeout(() => this.connectToWMSTCP(), 5000)
reconnectTCP(timers) == timers + 1

\* the hub ends the established connection of this.tcpClient: the runtime
\* destroys the socket (this.tcpClient.destroyed becomes true) and emits its
\* 'close' event in a later callback of the event loop; no handler of the
\* adapter runs in this step
SocketEnd ==
    /\ ~crashed
    /\ tcpUp
    /\ tcpConnected
    /\ tcpUp' = FALSE
    /\ tcpConnected' = FALSE
    /\ closePending' = closePending + 1
    /\ UNCHANGED <<correlatorVars, otherSockets, reconnectTimers, staleHeartbeats, crashed, hubReachable, wmsVars, codecVars, hubVars>>

\* the 'close' handler of a destroyed socket, this.tcpClient or one it has
\* replaced (every socket gets the same handler): it logs and calls
\* reconnectTCP; pending requests are left as they are
SocketClose ==
    /\ ~crashed
    /\ closePending > 0
    /\ closePending' = closePending - 1
    /\ reconnectTimers' = reconnectTCP(reconnectTimers)
    /\ UNCHANGED <<correlatorVars, tcpUp, tcpConnected, otherSockets, staleHeartbeats, crashed, hubReachable, wmsVars, codecVars, hubVars>>

\* reconnectTCP's timer: connectToWMSTCP makes a new socket, which becomes
\* this.tcpClient and starts connecting; the socket it replaces keeps its
\* handlers, and one more heartbeat interval is set while nothing clears the
\* earlier ones
Reconnect ==
    /\ ~crashed
    /\ reconnectTimers > 0
    /\ reconnectTimers' = reconnectTimers - 1
    /\ otherSockets' = IF ~tcpUp THEN otherSockets
                       ELSE IF tcpConnected
                       THEN [otherSockets EXCEPT !.connected = @ + 1]
                       ELSE [otherSockets EXCEPT !.connecting = @ + 1]
    /\ tcpUp' = TRUE
    /\ tcpConnected' = FALSE
    /\ staleHeartbeats' = TRUE
    /\ UNCHANGED <<correlatorVars, closePending, crashed, hubReachable, wmsVars, codecVars, hubVars>>

\* ---- the outbound connection in detail ----

\* bound of the model on sockets alive or still to be made by a pending timer
\* or a pending 'close'
MaxSockets == 4

SocketStates == {"connecting", "connected"}

\* sendHeartbeat: sendTCPMessage(message) with no requestId writes on
\* this.tcpClient, or throws when that socket is missing or destroyed
sendHeartbeat == [threw |-> ~tcpUp]

\* the 'error' handler of this.tcpClient: the socket that fails is destroyed
\* and its 'error' event emitted before any other callback runs; the handler
\* logs and calls reconnectTCP, and the socket's 'close' event follows in a
\* later callback of the event loop.  A connection attempt fails only while
\* the hub is unreachable; an established connection can be reset at any time.
SocketError ==
    /\ ~crashed
    /\ tcpUp
    /\ tcpConnected \/ ~hubReachable
    /\ PotentialSockets < MaxSockets
    /\ tcpUp' = FALSE
    /\ tcpConnected' = FALSE
    /\ reconnectTimers' = reconnectTCP(reconnectTimers)
    /\ closePending' = closePending + 1
    /\ UNCHANGED <<correlatorVars, otherSockets, staleHeartbeats, crashed, hubReachable, wmsVars, codecVars, hubVars>>

\* the hub ends the connection of a socket that is no longer this.tcpClient:
\* the runtime destroys it, and its 'close' event is still to come
OtherSocketEnd ==
    /\ ~crashed
    /\ otherSockets.connected > 0
    /\ otherSockets' = [otherSockets EXCEPT !.connected = @ - 1]
    /\ closePending' = closePending + 1
    /\ UNCHANGED <<correlatorVars, tcpUp, tcpConnected, reconnectTimers, staleHeartbeats, crashed, hubReachable, wmsVars, codecVars, hubVars>>

\* the 'error' handler of a socket that is no longer this.tcpClient; its
\* 'close' event is still to come
OtherSocketError(st) ==
    /\ ~crashed
    /\ otherSockets[st] > 0
    /\ st = "connected" \/ ~hubReachable
    /\ PotentialSockets < MaxSockets
    /\ otherSockets' = [otherSockets EXCEPT ![st] = @ - 1]
    /\ reconnectTimers' = reconnectTCP(reconnectTimers)
    /\ closePending' = closePending + 1
    /\ UNCHANGED <<correlatorVars, tcpUp, tcpConnected, staleHeartbeats, crashed, hubReachable, wmsVars, codecVars, hubVars>>

\* the connect callback of this.tcpClient: log, sendHeartbeat()
ConnectCallback ==
    /\ ~crashed
    /\ tcpUp
    /\ ~tcpConnected
    /\ hubReachable
    /\ tcpConnected' = TRUE
    /\ UNCHANGED <<correlatorVars, tcpUp, otherSockets, reconnectTimers, closePending, staleHeartbeats, crashed, hubReachable, wmsVars, codecVars, hubVars>>

\* the connect callback of a socket that is no longer this.tcpClient: its
\* sendHeartbeat() writes on this.tcpClient, and the exception it throws when
\* this.tcpClient is destroyed is caught by nothing, which ends the process
OtherConnectCallback ==
    /\ ~crashed
    /\ otherSockets.connecting > 0
    /\ hubReachable
    /\ IF sendHeartbeat.threw
       THEN /\ crashed' = TRUE
            /\ otherSockets' = NoSockets
            /\ reconnectTimers' = 0
            /\ closePending' = 0
            /\ staleHeartbeats' = FALSE
       ELSE /\ otherSockets' = [otherSockets EXCEPT !.connecting = @ - 1, !.connected = @ + 1]
            /\ UNCHANGED <<crashed, reconnectTimers, closePending, staleHeartbeats>>
    /\ UNCHANGED <<correlatorVars, tcpUp, tcpConnected, hubReachable, wmsVars, codecVars, hubVars>>

\* the WMS TCP server stops or starts accepting connections
HubDown ==
    /\ hubReachable
    /\ hubReachable' = FALSE
    /\ UNCHANGED <<correlatorVars, tcpUp, tcpConnected, otherSockets, reconnectTimers, closePending, staleHeartbeats, crashed, wmsVars, codecVars, hubVars>>

HubUp ==
    /\ ~hubReachable
    /\ hubReachable' = TRUE
    /\ UNCHANGED <<correlatorVars, tcpUp, tcpConnected, otherSockets, reconnectTimers, closePending, staleHeartbeats, crashed, wmsVars, codecVars, hubVars>>

-----------------------------------------------------------------------------
(* Frame codec.  A JavaScript string is the sequence of its character codes. *)
(* A JSON value is a record [k, s, n, o]: kind "str" (s the characters),     *)
(* "num" (n a natural number), "bignum" (s the digits of a larger one),      *)
(* "lit" (s spells true, false or null), "obj"                               *)
(* (o the members [key, val] in insertion order) or "arr" (o the items,      *)
(* keys empty).                                                              *)

TypeLen == 7
LengthDigits == 4
TimestampLen == 13
MinMessageLen == 26
ChecksumModulus == 100
ChecksumDigits == 2

\* MESSAGE_TYPES
MESSAGE_TYPES == {
    <<80, 75, 71, 95, 82, 67, 86>>,   \* PKG_RCV
    <<80, 75, 71, 95, 83, 84, 82>>,   \* PKG_STR
    <<80, 75, 71, 95, 80, 67, 75>>,   \* PKG_PCK
    <<80, 75, 71, 95, 76, 68, 68>>,   \* PKG_LDD
    <<83, 84, 83, 95, 82, 69, 81>>,   \* STS_REQ
    <<83, 84, 83, 95, 82, 83, 80>>,   \* STS_RSP
    <<72, 66, 84, 95, 67, 72, 75>>,   \* HBT_CHK
    <<69, 82, 82, 95, 77, 83, 71>>,   \* ERR_MSG
    <<65, 67, 75, 95, 77, 83, 71>> }  \* ACK_MSG

JStr(s) == [k |-> "str", s |-> s, n |-> 0, o |-> <<>>]
JNum(n) == [k |-> "num", s |-> <<>>, n |-> n, o |-> <<>>]
\* a number of ten to fifteen digits (a Date.now() value), kept as its digits
JBigNum(digits) == [k |-> "bignum", s |-> digits, n |-> 0, o |-> <<>>]
JLit(s) == [k |-> "lit", s |-> s, n |-> 0, o |-> <<>>]
JObj(members) == [k |-> "obj", s |-> <<>>, n |-> 0, o |-> members]
JArr(items) == [k |-> "arr", s |-> <<>>, n |-> 0, o |-> items]
Member(key, val) == [key |-> key, val |-> val]

\* the element of a one-element set; binding a result this way computes it once
The(S) == CHOOSE v \in S : TRUE

\* the least and the greatest member of a non-empty set of integers (the
\* greatest is the least of the negations, negated)
Min(S) == The({ CHOOSE x \in T : \A y \in T : x <= y : T \in {S} })
Max(S) == -Min({-x : x \in S})

Repeat(ch, n) == [i \in 1..n |-> ch]

\* Number.prototype.toString() of a natural number
RECURSIVE Digits(_)
Digits(n) == IF n < 10 THEN <<48 + n>> ELSE Digits(n \div 10) \o <<48 + (n % 10)>>

\* String.prototype.padStart(width, ch)
padStart(s, width, ch) ==
    IF Len(s) >= width THEN s ELSE Repeat(ch, width - Len(s)) \o s

\* sum of data.charCodeAt(i) for lo <= i <= hi
RECURSIVE SumCodes(_, _, _)
SumCodes(data, lo, hi) ==
    IF lo > hi THEN 0
    ELSE IF lo = hi THEN data[lo]
    ELSE LET mid == (lo + hi) \div 2 IN
         SumCodes(data, lo, mid) + SumCodes(data, mid + 1, hi)


\* calculateChecksum without the padding to two digits
calculateChecksum_NoPad(data) ==
    Digits(SumCodes(data, 1, Len(data)) % ChecksumModulus)

\* WMSProtocol.calculateChecksum
calculateChecksum(data) ==
    padStart(Digits(SumCodes(data, 1, Len(data)) % ChecksumModulus), ChecksumDigits, 48)

(* ---- JSON.stringify ---- *)

HexDigit(d) == IF d < 10 THEN 48 + d ELSE 87 + d

\* the escape of one character inside a JSON string
QuoteChar(c) ==
    CASE c = 34 -> <<92, 34>>
      [] c = 92 -> <<92, 92>>
      [] c = 8  -> <<92, 98>>
      [] c = 12 -> <<92, 102>>
      [] c = 10 -> <<92, 110>>
      [] c = 13 -> <<92, 114>>
      [] c = 9  -> <<92, 116>>
      [] c < 32 /\ c \notin {8, 9, 10, 12, 13} ->
            <<92, 117, 48, 48, HexDigit(c \div 16), HexDigit(c % 16)>>
      [] OTHER -> <<c>>

RECURSIVE QuoteRange(_, _, _)
QuoteRange(s, lo, hi) ==
    IF lo > hi THEN <<>>
    ELSE IF lo = hi THEN QuoteChar(s[lo])
    ELSE LET mid == (lo + hi) \div 2 IN
         QuoteRange(s, lo, mid) \o QuoteRange(s, mid + 1, hi)

QuoteJSONString(s) == <<34>> \o QuoteRange(s, 1, Len(s)) \o <<34>>

RECURSIVE JSONStringify(_)
RECURSIVE StringifyList(_, _, _)
StringifyList(items, i, withKeys) ==
    IF i > Len(items) THEN <<>>
    ELSE (IF i > 1 THEN <<44>> ELSE <<>>)
         \o (IF withKeys THEN QuoteJSONString(items[i].key) \o <<58>> ELSE <<>>)
         \o JSONStringify(items[i].val)
         \o StringifyList(items, i + 1, withKeys)

\* JSON.stringify(value)
JSONStringify(v) ==
    CASE v.k = "str" -> QuoteJSONString(v.s)
      [] v.k = "num" -> Digits(v.n)
      [] v.k = "bignum" -> v.s
      [] v.k = "lit" -> v.s
      [] v.k = "obj" -> <<123>> \o StringifyList(v.o, 1, TRUE) \o <<125>>
      [] v.k = "arr" -> <<91>> \o StringifyList(v.o, 1, FALSE) \o <<93>>


\* WMSProtocol.createMessage(type, payload); timestamp is Date.now().toString()
createMessage(type, payload, timestamp) ==
    LET jsonPayload == JSONStringify(payload)
        length == padStart(Digits(Len(jsonPayload)), LengthDigits, 48)
        checksum == calculateChecksum(type \o length \o timestamp \o jsonPayload)
    IN  type \o length \o timestamp \o jsonPayload \o checksum

(* ---- parseInt, substring ---- *)

\* StrWhiteSpaceChar among the first 256 characters
StrWhiteSpace == {9, 10, 11, 12, 13, 32, 160}

At(t, j) == IF j \in 1..Len(t) THEN t[j] ELSE -1

Drop(s, n) == SubSeq(s, n + 1, Len(s))

DigitVal(c) ==
    IF c \in 48..57 THEN c - 48
    ELSE IF c \in 97..122 THEN c - 87
    ELSE IF c \in 65..90 THEN c - 55
    ELSE 36

RECURSIVE MathInt(_, _)
MathInt(digits, radix) ==
    IF digits = <<>> THEN 0
    ELSE MathInt(SubSeq(digits, 1, Len(digits) - 1), radix) * radix
            + DigitVal(digits[Len(digits)])

\* parseInt(string): the result is NaN, or a sign and the digits that were read in
\* the radix that was detected (a 13-digit timestamp does not fit a TLC integer)
parseInt(string) ==
    LET notWs == {j \in 1..Len(string) : string[j] \notin StrWhiteSpace}
        s1 == IF notWs = {} THEN <<>> ELSE Drop(string, Min(notWs) - 1)
        neg == At(s1, 1) = 45
        s2 == IF At(s1, 1) \in {43, 45} THEN Drop(s1, 1) ELSE s1
        hex == At(s2, 1) = 48 /\ At(s2, 2) \in {120, 88}
        radix == IF hex THEN 16 ELSE 10
        s3 == IF hex THEN Drop(s2, 2) ELSE s2
        stop == {j \in 1..Len(s3) : DigitVal(s3[j]) >= radix}
        z == IF stop = {} THEN s3 ELSE SubSeq(s3, 1, Min(stop) - 1)
    IN  [nan |-> z = <<>>, neg |-> neg, radix |-> radix, digits |-> z]

NumberOf(digits) == [nan |-> FALSE, neg |-> FALSE, radix |-> 10, digits |-> digits]

\* the integer a parseInt result denotes (few digits only), 0 for NaN as ToIntegerOrInfinity
ToInteger(num) ==
    IF num.nan THEN 0
    ELSE IF num.neg THEN 0 - MathInt(num.digits, num.radix)
    ELSE MathInt(num.digits, num.radix)

Clamp(x, lo, hi) == IF x < lo THEN lo ELSE IF x > hi THEN hi ELSE x

\* String.prototype.substring(start, end) with 0-based indices
substring(s, start, end) ==
    LET a == Clamp(start, 0, Len(s))
        b == Clamp(end, 0, Len(s))
    IN  SubSeq(s, (IF a < b THEN a ELSE b) + 1, IF a < b THEN b ELSE a)

(* ---- JSON.parse ---- *)

JSONWhiteSpace == {32, 9, 10, 13}

SkipWs(t, i) ==
    LET S == {j \in i..Len(t) : t[j] \notin JSONWhiteSpace}
    IN  IF S = {} THEN Len(t) + 1 ELSE Min(S)

\* number of consecutive backslashes just before position k, not looking below lo
BackslashesBefore(t, lo, k) ==
    LET S == {j \in lo..(k - 1) : t[j] # 92}
    IN  IF S = {} THEN k - lo ELSE k - 1 - Max(S)

IsHex(c) == c \in 48..57 \/ c \in 97..102 \/ c \in 65..70

SimpleEscapes == {34, 92, 47, 98, 102, 110, 114, 116}

UnescapeChar(body, k) ==
    LET c == body[k + 1] IN
    CASE c = 98 -> 8
      [] c = 102 -> 12
      [] c = 110 -> 10
      [] c = 114 -> 13
      [] c = 116 -> 9
      [] c = 117 -> MathInt(SubSeq(body, k + 2, k + 5), 16)
      [] OTHER -> c

RECURSIVE UnescapeRange(_, _, _, _)
UnescapeRange(body, esc, lo, hi) ==
    IF lo > hi THEN <<>>
    ELSE IF lo = hi THEN
         IF lo \in esc THEN <<UnescapeChar(body, lo)>>
         ELSE IF \/ lo - 1 \in esc
                 \/ \E d \in 2..5 : (lo - d) \in esc /\ body[lo - d + 1] = 117
              THEN <<>>
              ELSE <<body[lo]>>
    ELSE LET mid == (lo + hi) \div 2 IN
         UnescapeRange(body, esc, lo, mid) \o UnescapeRange(body, esc, mid + 1, hi)

ParseFail == [ok |-> FALSE, pos |-> 0, val |-> JLit(<<>>)]
ParseOk(pos, val) == [ok |-> TRUE, pos |-> pos, val |-> val]

\* a JSON string starting at the quote at position i
ParseString(t, i) ==
    LET closers == {j \in (i + 1)..Len(t) :
                        t[j] = 34 /\ BackslashesBefore(t, i + 1, j) % 2 = 0}
    IN  IF At(t, i) # 34 \/ closers = {} THEN ParseFail
        ELSE LET endq == Min(closers)
                 body == SubSeq(t, i + 1, endq - 1)
                 esc == {k \in 1..Len(body) :
                            body[k] = 92 /\ BackslashesBefore(body, 1, k) % 2 = 0}
                 validEsc(k) ==
                     \/ body[k + 1] \in SimpleEscapes
                     \/ /\ body[k + 1] = 117
                        /\ k + 5 <= Len(body)
                        /\ \A d \in 2..5 : IsHex(body[k + d])
             IN  IF \E k \in 1..Len(body) : body[k] < 32 THEN ParseFail
                 ELSE IF \E k \in esc : ~validEsc(k) THEN ParseFail
                 ELSE ParseOk(endq + 1,
                              JStr(IF esc = {} THEN body
                                   ELSE UnescapeRange(body, esc, 1, Len(body))))

\* a JSON number starting at position i: natural numbers of at most fifteen
\* digits; signs, fractions and exponents are outside the modelled payloads
ParseNumber(t, i) ==
    LET stop == {j \in i..Len(t) : t[j] \notin 48..57}
        e == IF stop = {} THEN Len(t) + 1 ELSE Min(stop)
        digits == SubSeq(t, i, e - 1)
    IN  IF digits = <<>> \/ Len(digits) > 15 THEN ParseFail
        ELSE IF digits[1] = 48 /\ Len(digits) > 1 THEN ParseFail
        ELSE IF At(t, e) \in {46, 101, 69} THEN ParseFail
        ELSE IF Len(digits) > 9 THEN ParseOk(e, JBigNum(digits))
        ELSE ParseOk(e, JNum(MathInt(digits, 10)))

JSONLiterals == { <<116, 114, 117, 101>>, <<102, 97, 108, 115, 101>>, <<110, 117, 108, 108>> }

ParseLiteral(t, i) ==
    LET hits == {l \in JSONLiterals : SubSeq(t, i, Min({Len(t), i + Len(l) - 1})) = l}
    IN  IF hits = {} THEN ParseFail
        ELSE LET l == CHOOSE h \in hits : TRUE IN ParseOk(i + Len(l), JLit(l))

\* obj[key] = val: a repeated key keeps its place and takes the new value
PutMember(members, key, val) ==
    IF \E k \in DOMAIN members : members[k].key = key
    THEN [k \in DOMAIN members |->
              IF members[k].key = key THEN Member(key, val) ELSE members[k]]
    ELSE Append(members, Member(key, val))

RECURSIVE ParseValue(_, _)
RECURSIVE ParseMembers(_, _, _)
RECURSIVE ParseItems(_, _, _)

\* the members of an object, the first key expected at position i
ParseMembers(t, i, acc) ==
    LET ks == ParseString(t, i) IN
    IF ~ks.ok THEN ParseFail
    ELSE LET j == SkipWs(t, ks.pos) IN
         IF At(t, j) # 58 THEN ParseFail
         ELSE LET v == ParseValue(t, SkipWs(t, j + 1)) IN
              IF ~v.ok THEN ParseFail
              ELSE LET m == SkipWs(t, v.pos)
                       members == PutMember(acc, ks.val.s, v.val)
                   IN  IF At(t, m) = 44 THEN ParseMembers(t, SkipWs(t, m + 1), members)
                       ELSE IF At(t, m) = 125 THEN ParseOk(m + 1, JObj(members))
                       ELSE ParseFail

\* the items of an array, the first item expected at position i
ParseItems(t, i, acc) ==
    LET v == ParseValue(t, i) IN
    IF ~v.ok THEN ParseFail
    ELSE LET m == SkipWs(t, v.pos)
             items == Append(acc, Member(<<>>, v.val))
         IN  IF At(t, m) = 44 THEN ParseItems(t, SkipWs(t, m + 1), items)
             ELSE IF At(t, m) = 93 THEN ParseOk(m + 1, JArr(items))
             ELSE ParseFail

ParseValue(t, i) ==
    LET c == At(t, i) IN
    CASE c = 34 -> ParseString(t, i)
      [] c \in 48..57 -> ParseNumber(t, i)
      [] c = 123 -> LET j == SkipWs(t, i + 1) IN
                    IF At(t, j) = 125 THEN ParseOk(j + 1, JObj(<<>>))
                    ELSE ParseMembers(t, j, <<>>)
      [] c = 91 -> LET j == SkipWs(t, i + 1) IN
                   IF At(t, j) = 93 THEN ParseOk(j + 1, JArr(<<>>))
                   ELSE ParseItems(t, j, <<>>)
      [] c \in {116, 102, 110} -> ParseLiteral(t, i)
      [] OTHER -> ParseFail

\* JSON.parse(text): ok is FALSE where JSON.parse throws a SyntaxError
JSONParse(t) ==
    LET v == ParseValue(t, SkipWs(t, 1)) IN
    IF v.ok /\ SkipWs(t, v.pos) = Len(t) + 1
    THEN [ok |-> TRUE, val |-> v.val]
    ELSE [ok |-> FALSE, val |-> JLit(<<>>)]

(* ---- parseMessage ---- *)

\* parseMessage returned null; log is what it wrote to the console
NullMessage(log) ==
    [ok |-> FALSE, log |-> log, type |-> <<>>, timestamp |-> NumberOf(<<>>),
     payload |-> JLit(<<>>)]

\* parseMessage without the checksum comparison
parseMessage_NoChecksum(rawMessage) ==
    IF Len(rawMessage) < MinMessageLen THEN NullMessage("none")
    ELSE LET type == substring(rawMessage, 0, TypeLen)
             lengthStr == substring(rawMessage, TypeLen, TypeLen + LengthDigits)
             length == parseInt(lengthStr)
             headerLen == TypeLen + LengthDigits + TimestampLen
             timestampStr == substring(rawMessage, TypeLen + LengthDigits, headerLen)
             payloadEnd == IF length.nan THEN 0 ELSE headerLen + ToInteger(length)
             payload == substring(rawMessage, headerLen, payloadEnd)
             json == JSONParse(payload)
         IN  IF ~json.ok THEN NullMessage("Error parsing message")
             ELSE [ok |-> TRUE, log |-> "none", type |-> type,
                   timestamp |-> parseInt(timestampStr), payload |-> json.val]

\* parseMessage that compares only the two characters after the payload
parseMessage_ChecksumPrefix(rawMessage) ==
    IF Len(rawMessage) < MinMessageLen THEN NullMessage("none")
    ELSE LET type == substring(rawMessage, 0, TypeLen)
             lengthStr == substring(rawMessage, TypeLen, TypeLen + LengthDigits)
             length == parseInt(lengthStr)
             headerLen == TypeLen + LengthDigits + TimestampLen
             timestampStr == substring(rawMessage, TypeLen + LengthDigits, headerLen)
             payloadEnd == IF length.nan THEN 0 ELSE headerLen + ToInteger(length)
             payload == substring(rawMessage, headerLen, payloadEnd)
             checksum == substring(rawMessage, payloadEnd, payloadEnd + ChecksumDigits)
             expectedChecksum ==
                 calculateChecksum(type \o lengthStr \o timestampStr \o payload)
         IN  IF checksum # expectedChecksum THEN NullMessage("Invalid checksum")
             ELSE LET json == JSONParse(payload) IN
                  IF ~json.ok THEN NullMessage("Error parsing message")
                  ELSE [ok |-> TRUE, log |-> "none", type |-> type,
                        timestamp |-> parseInt(timestampStr), payload |-> json.val]

\* parseMessage without its minimum-length check
parseMessage_NoMinLength(rawMessage) ==
    LET type == substring(rawMessage, 0, TypeLen)
        lengthStr == substring(rawMessage, TypeLen, TypeLen + LengthDigits)
        length == parseInt(lengthStr)
        headerLen == TypeLen + LengthDigits + TimestampLen
        timestampStr == substring(rawMessage, TypeLen + LengthDigits, headerLen)
        payloadEnd == IF length.nan THEN 0 ELSE headerLen + ToInteger(length)
        payload == substring(rawMessage, headerLen, payloadEnd)
        checksum == substring(rawMessage, payloadEnd, Len(rawMessage))
        expectedChecksum ==
            calculateChecksum(type \o lengthStr \o timestampStr \o payload)
    IN  IF checksum # expectedChecksum THEN NullMessage("Invalid checksum")
        ELSE LET json == JSONParse(payload) IN
             IF ~json.ok THEN NullMessage("Error parsing message")
             ELSE [ok |-> TRUE, log |-> "none", type |-> type,
                   timestamp |-> parseInt(timestampStr), payload |-> json.val]

\* WMSProtocol.parseMessage(rawMessage)
parseMessage(rawMessage) ==
    IF Len(rawMessage) < MinMessageLen THEN NullMessage("none")
    ELSE LET type == substring(rawMessage, 0, TypeLen)
             lengthStr == substring(rawMessage, TypeLen, TypeLen + LengthDigits)
             length == parseInt(lengthStr)
             headerLen == TypeLen + LengthDigits + TimestampLen
             timestampStr == substring(rawMessage, TypeLen + LengthDigits, headerLen)
             payloadEnd == IF length.nan THEN 0 ELSE headerLen + ToInteger(length)
             payload == substring(rawMessage, headerLen, payloadEnd)
             checksum == substring(rawMessage, payloadEnd, Len(rawMessage))
             expectedChecksum ==
                 calculateChecksum(type \o lengthStr \o timestampStr \o payload)
         IN  IF checksum # expectedChecksum THEN NullMessage("Invalid checksum")
             ELSE LET json == JSONParse(payload) IN
                  IF ~json.ok THEN NullMessage("Error parsing message")
                  ELSE [ok |-> TRUE, log |-> "none", type |-> type,
                        timestamp |-> parseInt(timestampStr), payload |-> json.val]

(* ---- inputs and steps of the codec ---- *)

OversizeLen == 9992
MaxByte == 255

Bytes == 0..MaxByte

\* Date.now().toString()
Timestamps == {
    <<49, 55, 48, 48, 48, 48, 48, 48, 48, 48, 48, 48, 48>>,   \* 1700000000000
    <<49, 55, 54, 49, 55, 56, 50, 52, 48, 48, 49, 50, 51>> }  \* 1761782400123

\* { packageId: 'PKG123', status: 'received', timestamp: Date.now() }
PackagePayload ==
    JObj(<< Member(<<112, 97, 99, 107, 97, 103, 101, 73, 100>>, JStr(<<80, 75, 71, 49, 50, 51>>)),
            Member(<<115, 116, 97, 116, 117, 115>>, JStr(<<114, 101, 99, 101, 105, 118, 101, 100>>)),
            Member(<<116, 105, 109, 101, 115, 116, 97, 109, 112>>,
                   JBigNum(<<49, 55, 48, 48, 48, 48, 48, 48, 48, 48, 48, 48, 48>>)) >>)   \* 1700000000000

\* { test: 'data', number: 123, array: [1, 2, 3] }
IntegrityPayload ==
    JObj(<< Member(<<116, 101, 115, 116>>, JStr(<<100, 97, 116, 97>>)),
            Member(<<110, 117, 109, 98, 101, 114>>, JNum(123)),
            Member(<<97, 114, 114, 97, 121>>, JArr(<< Member(<<>>, JNum(1)), Member(<<>>, JNum(2)),
                                   Member(<<>>, JNum(3)) >>)) >>)

\* { note: 'a"b\\c<newline>d<e acute>', ok: true }
EscapedPayload ==
    JObj(<< Member(<<110, 111, 116, 101>>, JStr(<<97, 34, 98, 92, 99, 10, 100, 233>>)),
            Member(<<111, 107>>, JLit(<<116, 114, 117, 101>>)) >>)

\* {}
EmptyPayload == JObj(<<>>)

\* { data: 'xxx...x' }, whose JSON text is OversizeLen + 11 = 10003 characters long
OversizePayload == JObj(<< Member(<<100, 97, 116, 97>>, JStr(Repeat(120, OversizeLen))) >>)

SmallPayloads == {PackagePayload, IntegrityPayload, EscapedPayload, EmptyPayload}
Payloads == SmallPayloads \cup {OversizePayload}

NoCorruption == [pos |-> 0, old |-> 0, new |-> 0]
NoFrame == <<>>
NotParsed == NullMessage("not parsed")

\* createMessage(msgType, msgPayload) at the time clock
CreateMessage ==
    /\ codecPc = "input"
    /\ frame' = createMessage(msgType, msgPayload, clock)
    /\ codecPc' = "created"
    /\ UNCHANGED <<msgType, msgPayload, clock, received, parsed, corruption>>
    /\ UNCHANGED <<wmsVars, bridgeVars, hubVars>>

\* the frame arrives as it was sent and is parsed
ParseMessage ==
    /\ codecPc = "created"
    /\ received' = frame
    /\ parsed' = parseMessage(frame)
    /\ codecPc' = "parsed"
    /\ UNCHANGED <<msgType, msgPayload, clock, frame, corruption>>
    /\ UNCHANGED <<wmsVars, bridgeVars, hubVars>>

Corrupted(f, pos, new) == [f EXCEPT ![pos] = new]

\* the positions of the header and the payload of a frame on its way
CorruptiblePositions ==
    IF codecPc = "created" THEN 1..(Len(frame) - ChecksumDigits) ELSE {}

\* the frame arrives with the character at pos (in the header or the payload)
\* replaced by another one, and is parsed
ParseCorrupted(pos, new) ==
    /\ codecPc = "created"
    /\ pos \in CorruptiblePositions
    /\ new # frame[pos]
    /\ received' = Corrupted(frame, pos, new)
    /\ parsed' = parseMessage(received')
    /\ corruption' = [pos |-> pos, old |-> frame[pos], new |-> new]
    /\ codecPc' = "parsed"
    /\ UNCHANGED <<msgType, msgPayload, clock, frame>>
    /\ UNCHANGED <<wmsVars, bridgeVars, hubVars>>

\* characters tried in place of the checksum: the digits and some others
TrailerChars == (48..57) \cup {0, 32, 65, MaxByte}

\* what can replace or follow the checksum of a frame on its way
ReplacementChars == IF codecPc = "created" THEN TrailerChars ELSE {}
ExtraBytes == IF codecPc = "created" THEN Bytes ELSE {}

\* the frame arrives with its two checksum characters replaced by two others
ChecksumReplacedArrives(a, b) ==
    /\ codecPc = "created"
    /\ <<a, b>> # SubSeq(frame, Len(frame) - 1, Len(frame))
    /\ received' = SubSeq(frame, 1, Len(frame) - ChecksumDigits) \o <<a, b>>
    /\ corruption' = IF a # frame[Len(frame) - 1]
                     THEN [pos |-> Len(frame) - 1, old |-> frame[Len(frame) - 1], new |-> a]
                     ELSE [pos |-> Len(frame), old |-> frame[Len(frame)], new |-> b]
    /\ codecPc' = "arrived"
    /\ UNCHANGED <<msgType, msgPayload, clock, frame, parsed>>
    /\ UNCHANGED <<wmsVars, bridgeVars, hubVars>>

\* the frame arrives with one more character after its checksum
ExtraByteArrives(b) ==
    /\ codecPc = "created"
    /\ received' = Append(frame, b)
    /\ corruption' = [pos |-> Len(frame) + 1, old |-> -1, new |-> b]
    /\ codecPc' = "arrived"
    /\ UNCHANGED <<msgType, msgPayload, clock, frame, parsed>>
    /\ UNCHANGED <<wmsVars, bridgeVars, hubVars>>

\* lengths below the minimum message length
ShortLengths == 0..(MinMessageLen - 1)

\* 'STS_RSP-01000020': 16 characters whose length field reads -10, so that
\* substring(24, 14) and substring(14) both give '20', which is valid JSON and
\* the checksum of what parseMessage would sum
ShortInput == <<83, 84, 83, 95, 82, 83, 80, 45, 48, 49, 48, 48, 48, 48, 50, 48>>

\* inputs shorter than the minimum message length: the frame on its way cut
\* at each such length, and the 16-character string
ShortInputs ==
    IF codecPc = "created"
    THEN {SubSeq(frame, 1, n) : n \in ShortLengths} \cup {ShortInput}
    ELSE {}

\* the short string s arrives in place of the frame
ShortInputArrives(s) ==
    /\ codecPc = "created"
    /\ Len(s) < Len(frame)
    /\ received' = s
    /\ corruption' = [pos |-> Len(s) + 1, old |-> frame[Len(s) + 1], new |-> -1]
    /\ codecPc' = "arrived"
    /\ UNCHANGED <<msgType, msgPayload, clock, frame, parsed>>
    /\ UNCHANGED <<wmsVars, bridgeVars, hubVars>>

\* what arrived is handed to parseMessage
ParseReceived ==
    /\ codecPc = "arrived"
    /\ parsed' = parseMessage(received)
    /\ codecPc' = "parsed"
    /\ UNCHANGED <<msgType, msgPayload, clock, frame, received, corruption>>
    /\ UNCHANGED <<wmsVars, bridgeVars, hubVars>>

-----------------------------------------------------------------------------
(* Hub: WMSProtocol's connection handling (addClient, broadcast,            *)
(* sendToClient, handleClientData, the heartbeat), WMSTCPServer and the      *)
(* server's 'message' handler.  Node runs each callback to completion, so    *)
(* each callback is one step.  The STS_RSP answer to a status request is     *)
(* written by the reaction of getWarehouseStats().then(...), a microtask:    *)
(* it runs after the 'data' callback has returned and after the nextTick     *)
(* queue, where a socket's 'error' event is emitted, and before any timer,   *)
(* I/O or 'close' callback.  While reactions are queued, the only steps are  *)
(* therefore the 'error' listeners and then the reactions themselves.        *)

MaxConns == 2

\* the sockets net.createServer can hand to addClient
Conns == 1..MaxConns

\* Date.now() while the hub runs: 1700000000000
HubNow == <<49, 55, 48, 48, 48, 48, 48, 48, 48, 48, 48, 48, 48>>   \* '1700000000000'

\* a location string of OversizeLen characters
LongLocation == "x repeated OversizeLen times"

HubPackageIds == {"PKG001"}
HubLocations == {"A1", LongLocation}

\* the characters of the strings the lifecycle engine hands to the hub
Chars(str) ==
    CASE str = "PKG001" -> <<80, 75, 71, 48, 48, 49>>   \* 'PKG001'
      [] str = "CLIENT001" -> <<67, 76, 73, 69, 78, 84, 48, 48, 49>>   \* 'CLIENT001'
      [] str = "A1" -> <<65, 49>>   \* 'A1'
      [] str = LongLocation -> Repeat(120, OversizeLen)
      [] str = "VH001" -> <<86, 72, 48, 48, 49>>   \* 'VH001'
      [] str = "received" -> <<114, 101, 99, 101, 105, 118, 101, 100>>   \* 'received'
      [] str = "stored" -> <<115, 116, 111, 114, 101, 100>>   \* 'stored'
      [] str = "picked" -> <<112, 105, 99, 107, 101, 100>>   \* 'picked'
      [] str = "loaded" -> <<108, 111, 97, 100, 101, 100>>   \* 'loaded'
      [] str = "PKG_RCV" -> <<80, 75, 71, 95, 82, 67, 86>>   \* 'PKG_RCV'
      [] str = "PKG_STR" -> <<80, 75, 71, 95, 83, 84, 82>>   \* 'PKG_STR'
      [] str = "PKG_PCK" -> <<80, 75, 71, 95, 80, 67, 75>>   \* 'PKG_PCK'
      [] str = "PKG_LDD" -> <<80, 75, 71, 95, 76, 68, 68>>   \* 'PKG_LDD'

\* JSON value of a string field that may be null
JStrOrNull(str) == IF str = Null THEN JLit(<<110, 117, 108, 108>>) ELSE JStr(Chars(str))   \* 'null'

\* WMSTCPServer.broadcastPackageUpdate: the payload of the broadcast frame
updatePayload(u) ==
    JObj(<< Member(<<112, 97, 99, 107, 97, 103, 101, 73, 100>>, JStr(Chars(u.packageId))),   \* 'packageId'
            Member(<<115, 116, 97, 116, 117, 115>>, JStr(Chars(u.status))),   \* 'status'
            Member(<<108, 111, 99, 97, 116, 105, 111, 110>>, JStrOrNull(u.location)),   \* 'location'
            Member(<<97, 115, 115, 105, 103, 110, 101, 100, 86, 101, 104, 105, 99, 108, 101>>, JStrOrNull(u.assignedVehicle)),   \* 'assignedVehicle'
            Member(<<116, 105, 109, 101, 115, 116, 97, 109, 112>>, JBigNum(HubNow)) >>)   \* 'timestamp'

\* The hub while a callback runs: the live set, the strings written so far
\* per socket, the effects so far in order, and the promise reactions queued.
Quiet ==
    [clients |-> clients,
     writes |-> [c \in Conns |-> <<>>],
     log |-> <<>>,
     microtasks |-> <<>>]

\* client.write called twice per frame: the header, then the rest
clientWrite_TwoChunks(h, client, type, message) ==
    IF client \in writeThrows
    THEN [h EXCEPT !.clients = orderDelete(@, client),
                   !.log = Append(@, [fx |-> "throw", to |-> client, type |-> type])]
    ELSE [h EXCEPT !.writes[client] =
                       @ \o << SubSeq(message, 1, TypeLen + LengthDigits + TimestampLen),
                               Drop(message, TypeLen + LengthDigits + TimestampLen) \o <<10>> >>,
                   !.log = Append(@, [fx |-> "write", to |-> client, type |-> type])]

\* try { client.write(message + '\n') } catch { this.clients.delete(client) }
clientWrite(h, client, type, message) ==
    IF client \in writeThrows
    THEN [h EXCEPT !.clients = orderDelete(@, client),
                   !.log = Append(@, [fx |-> "throw", to |-> client, type |-> type])]
    ELSE [h EXCEPT !.writes[client] = Append(@, message \o <<10>>),
                   !.log = Append(@, [fx |-> "write", to |-> client, type |-> type])]

\* a forEach that gives up at the first socket whose write throws
RECURSIVE forEachClient_StopsAtFailure(_, _, _, _)
forEachClient_StopsAtFailure(h, todo, type, message) ==
    IF todo = <<>> THEN h
    ELSE LET client == Head(todo) IN
         IF client \in writeThrows THEN clientWrite(h, client, type, message)
         ELSE forEachClient_StopsAtFailure(clientWrite(h, client, type, message),
                                           Tail(todo), type, message)

\* this.clients.forEach(client => ...) over the clients not yet visited, in
\* the insertion order of the Set
RECURSIVE forEachClient(_, _, _, _)
forEachClient(h, todo, type, message) ==
    IF todo = <<>> THEN h
    ELSE forEachClient(clientWrite(h, Head(todo), type, message), Tail(todo), type, message)

\* WMSProtocol.broadcast
broadcast(h, type, payload) ==
    forEachClient(h, h.clients, type, createMessage(type, payload, HubNow))

\* WMSProtocol.sendToClient
sendToClient(h, client, type, payload) ==
    clientWrite(h, client, type, createMessage(type, payload, HubNow))

\* String.prototype.trim
trim(s) ==
    LET keep == {i \in 1..Len(s) : s[i] \notin StrWhiteSpace} IN
    IF keep = {} THEN <<>> ELSE SubSeq(s, Min(keep), Max(keep))

\* String.prototype.split('\n')
split(s) ==
    LET cuts == {i \in 1..Len(s) : s[i] = 10}
        ends == cuts \cup {Len(s) + 1}
        startOf(e) == IF \E c \in cuts : c < e THEN Max({c \in cuts : c < e}) + 1 ELSE 1
        order == [k \in 1..Cardinality(ends) |->
                    CHOOSE e \in ends : Cardinality({x \in ends : x < e}) = k - 1]
    IN  [k \in 1..Cardinality(ends) |-> SubSeq(s, startOf(order[k]), order[k] - 1)]

\* the Warehouse the handler builds; name, address and capacity come from
\* config/wms-config.json
warehouse ==
    JObj(<< Member(<<105, 100>>, JStr(<<87, 72, 48, 48, 49>>)),   \* 'id', 'WH001'
            Member(<<110, 97, 109, 101>>, JStr(<<77, 97, 105, 110, 32, 87, 97, 114, 101, 104, 111, 117, 115, 101>>)),   \* 'name', 'Main Warehouse'
            Member(<<97, 100, 100, 114, 101, 115, 115>>, JStr(<<67, 111, 108, 111, 109, 98, 111>>)),   \* 'address', 'Colombo'
            Member(<<99, 97, 112, 97, 99, 105, 116, 121>>, JNum(10000)),   \* 'capacity'
            Member(<<99, 97, 112, 97, 99, 105, 116, 121, 85, 115, 97, 103, 101>>, JStr(<<48, 46, 48, 37>>)) >>)   \* 'capacityUsage', '0.0%'

\* PackageManager.getStatistics (statusBreakdown lists each status present, in
\* the order its key was created; lastUpdated is new Date().toISOString() at
\* HubNow)
getStatistics(pkgs, order) ==
    LET stats == packageStats(pkgs, order)
        count(st) == countOf(stats, st)
        present == stats.statusOrder
    IN  JObj(<< Member(<<116, 111, 116, 97, 108, 80, 97, 99, 107, 97, 103, 101, 115>>, JNum(stats.totalPackages)),   \* 'totalPackages'
                Member(<<115, 116, 97, 116, 117, 115, 66, 114, 101, 97, 107, 100, 111, 119, 110>>,   \* 'statusBreakdown'
                       JObj([k \in 1..Len(present) |->
                               Member(Chars(present[k]), JNum(count(present[k])))])),
                Member(<<114, 101, 97, 100, 121, 70, 111, 114, 80, 105, 99, 107, 117, 112>>, JNum(count("stored"))),   \* 'readyForPickup'
                Member(<<108, 111, 97, 100, 101, 100>>, JNum(count("loaded"))),   \* 'loaded'
                Member(<<108, 97, 115, 116, 85, 112, 100, 97, 116, 101, 100>>, JStr(<<50, 48, 50, 51, 45, 49, 49, 45, 49, 52, 84, 50, 50, 58, 49, 51, 58, 50, 48, 46, 48, 48, 48, 90>>)) >>)   \* 'lastUpdated', '2023-11-14T22:13:20.000Z'

\* the payload the server's STS_REQ case sends once getWarehouseStats resolves
statsResponse(pkgs, order) ==
    JObj(<< Member(<<119, 97, 114, 101, 104, 111, 117, 115, 101>>, warehouse),   \* 'warehouse'
            Member(<<112, 97, 99, 107, 97, 103, 101, 115>>, getStatistics(pkgs, order)),   \* 'packages'
            Member(<<116, 105, 109, 101, 115, 116, 97, 109, 112>>, JBigNum(HubNow)) >>)   \* 'timestamp'

\* tcpServer.on('message'): STS_REQ calls getWarehouseStats(), which takes
\* the statistics at once, and queues the reply as the promise's reaction;
\* every other type is logged only
onMessage(h, client, message) ==
    LET seen == [h EXCEPT !.log = Append(@, [fx |-> "emit", to |-> client,
                                              type |-> message.type])] IN
    IF message.type = <<83, 84, 83, 95, 82, 69, 81>>   \* 'STS_REQ'
    THEN [seen EXCEPT !.microtasks = Append(@, [client |-> client,
                                                payload |-> statsResponse(packages, packageOrder)])]
    ELSE seen

\* the body of messages.forEach dispatching before it acknowledges
handleMessage_DispatchFirst(h, client, message) ==
    IF ~message.ok
    THEN sendToClient(h, client, <<69, 82, 82, 95, 77, 83, 71>>,   \* 'ERR_MSG'
             JObj(<< Member(<<101, 114, 114, 111, 114>>, JStr(<<73, 110, 118, 97, 108, 105, 100, 32, 109, 101, 115, 115, 97, 103, 101, 32, 102, 111, 114, 109, 97, 116>>)),   \* 'error', 'Invalid message format'
                     Member(<<116, 105, 109, 101, 115, 116, 97, 109, 112>>, JBigNum(HubNow)) >>))   \* 'timestamp'
    ELSE sendToClient(onMessage(h, client, message), client, <<65, 67, 75, 95, 77, 83, 71>>,   \* 'ACK_MSG'
             JObj(<< Member(<<111, 114, 105, 103, 105, 110, 97, 108, 84, 121, 112, 101>>, JStr(message.type)),   \* 'originalType'
                     Member(<<116, 105, 109, 101, 115, 116, 97, 109, 112>>, JBigNum(HubNow)) >>))   \* 'timestamp'

\* the body of messages.forEach reporting a decode failure to every client
handleMessage_ErrorToAll(h, client, message) ==
    IF ~message.ok
    THEN broadcast(h, <<69, 82, 82, 95, 77, 83, 71>>,   \* 'ERR_MSG'
             JObj(<< Member(<<101, 114, 114, 111, 114>>, JStr(<<73, 110, 118, 97, 108, 105, 100, 32, 109, 101, 115, 115, 97, 103, 101, 32, 102, 111, 114, 109, 97, 116>>)),   \* 'error', 'Invalid message format'
                     Member(<<116, 105, 109, 101, 115, 116, 97, 109, 112>>, JBigNum(HubNow)) >>))   \* 'timestamp'
    ELSE onMessage(
             sendToClient(h, client, <<65, 67, 75, 95, 77, 83, 71>>,   \* 'ACK_MSG'
                 JObj(<< Member(<<111, 114, 105, 103, 105, 110, 97, 108, 84, 121, 112, 101>>, JStr(message.type)),   \* 'originalType'
                         Member(<<116, 105, 109, 101, 115, 116, 97, 109, 112>>, JBigNum(HubNow)) >>)),   \* 'timestamp'
             client, message)

\* the body of messages.forEach in handleClientData for one decoded fragment
handleMessage(h, client, message) ==
    IF ~message.ok
    THEN sendToClient(h, client, <<69, 82, 82, 95, 77, 83, 71>>,   \* 'ERR_MSG'
             JObj(<< Member(<<101, 114, 114, 111, 114>>, JStr(<<73, 110, 118, 97, 108, 105, 100, 32, 109, 101, 115, 115, 97, 103, 101, 32, 102, 111, 114, 109, 97, 116>>)),   \* 'error', 'Invalid message format'
                     Member(<<116, 105, 109, 101, 115, 116, 97, 109, 112>>, JBigNum(HubNow)) >>))   \* 'timestamp'
    ELSE onMessage(
             sendToClient(h, client, <<65, 67, 75, 95, 77, 83, 71>>,   \* 'ACK_MSG'
                 JObj(<< Member(<<111, 114, 105, 103, 105, 110, 97, 108, 84, 121, 112, 101>>, JStr(message.type)),   \* 'originalType'
                         Member(<<116, 105, 109, 101, 115, 116, 97, 109, 112>>, JBigNum(HubNow)) >>)),   \* 'timestamp'
             client, message)

\* messages.forEach in handleClientData, from the i-th fragment on
RECURSIVE forEachMessage(_, _, _, _)
forEachMessage(h, client, messages, i) ==
    IF i > Len(messages) THEN h
    ELSE IF messages[i] = <<>> THEN forEachMessage(h, client, messages, i + 1)
    ELSE The({ forEachMessage(next, client, messages, i + 1) :
                 next \in { handleMessage(h, client, message) :
                              message \in {parseMessage(messages[i])} } })

\* WMSProtocol.handleClientData
handleClientData(h, client, data) ==
    The({ forEachMessage(h, client, messages, 1) : messages \in {split(trim(data))} })

\* the promise reactions queued by the 'data' callback, run from the i-th on
RECURSIVE runMicrotasks(_, _)
runMicrotasks(h, i) ==
    IF i > Len(h.microtasks) THEN h
    ELSE The({ runMicrotasks(next, i + 1) :
                 next \in { sendToClient(h, h.microtasks[i].client, <<83, 84, 83, 95, 82, 83, 80>>,   \* 'STS_RSP'
                                         h.microtasks[i].payload) } })

(* ---- what the bridge and other clients put on the wire ---- *)

\* TCPHTTPAdapter.createTCPMessage: the adapter's copy of createMessage
createTCPMessage(type, payload, timestamp) ==
    LET jsonPayload == JSONStringify(payload)
        length == padStart(Digits(Len(jsonPayload)), LengthDigits, 48)
        checksum == calculateChecksum(type \o length \o timestamp \o jsonPayload)
    IN  type \o length \o timestamp \o jsonPayload \o checksum

\* a frame laid out by the wire format around a given JSON text
encodeFrame(type, jsonPayload, timestamp) ==
    LET length == padStart(Digits(Len(jsonPayload)), LengthDigits, 48)
        checksum == calculateChecksum(type \o length \o timestamp \o jsonPayload)
    IN  type \o length \o timestamp \o jsonPayload \o checksum

\* the requestId the adapter's handlers build: `<prefix>_${Date.now()}`
requestIdChars(prefix) == prefix \o <<95>> \o HubNow

\* the frames handlePackageStatus and handlePackageStore write (fields the
\* HTTP body leaves undefined are dropped by JSON.stringify)
BridgeKinds == {"status", "store"}

BridgeFrame == [kind \in BridgeKinds |->
    CASE kind = "status" ->
            createTCPMessage(<<83, 84, 83, 95, 82, 69, 81>>,   \* 'STS_REQ'
                JObj(<< Member(<<114, 101, 113, 117, 101, 115, 116, 73, 100>>, JStr(requestIdChars(<<115, 116, 97, 116, 117, 115>>))),   \* 'requestId', 'status'
                        Member(<<112, 97, 99, 107, 97, 103, 101, 73, 100>>, JStr(<<80, 75, 71, 48, 48, 49>>)),   \* 'packageId', 'PKG001'
                        Member(<<116, 105, 109, 101, 115, 116, 97, 109, 112>>, JBigNum(HubNow)) >>), HubNow)   \* 'timestamp'
      [] kind = "store" ->
            createTCPMessage(<<80, 75, 71, 95, 83, 84, 82>>,   \* 'PKG_STR'
                JObj(<< Member(<<114, 101, 113, 117, 101, 115, 116, 73, 100>>, JStr(requestIdChars(<<115, 116, 111, 114, 101>>))),   \* 'requestId', 'store'
                        Member(<<112, 97, 99, 107, 97, 103, 101, 73, 100>>, JStr(<<80, 75, 71, 48, 48, 49>>)),   \* 'packageId', 'PKG001'
                        Member(<<108, 111, 99, 97, 116, 105, 111, 110>>, JStr(<<65, 49>>)),   \* 'location', 'A1'
                        Member(<<116, 105, 109, 101, 115, 116, 97, 109, 112>>, JBigNum(HubNow)) >>), HubNow)]   \* 'timestamp'

\* a status request whose JSON text has a line break between its members
NewlineFrame ==
    encodeFrame(<<83, 84, 83, 95, 82, 69, 81>>,   \* 'STS_REQ'
        <<123>> \o <<34>> \o <<114, 101, 113, 117, 101, 115, 116, 73, 100>> \o <<34, 58, 34>> \o requestIdChars(<<115, 116, 97, 116, 117, 115>>)   \* '{', 'requestId', 'status'
              \o <<34, 44, 10, 34>> \o <<112, 97, 99, 107, 97, 103, 101, 73, 100>> \o <<34, 58, 34>> \o <<80, 75, 71, 48, 48, 49>>   \* 'packageId', 'PKG001'
              \o <<34>> \o <<125>>,   \* '}'
        HubNow)

\* what one 'data' event can carry
DataKinds == BridgeKinds \cup {"corrupt", "lines", "prefix", "suffix", "newline"}

IncomingData == [kind \in DataKinds |->
    CASE kind \in BridgeKinds -> BridgeFrame[kind]
      \* the store frame with the last character of its payload changed
      [] kind = "corrupt" ->
            [BridgeFrame["store"] EXCEPT ![Len(BridgeFrame["store"]) - ChecksumDigits] = 93]
      \* three frames in one read, one per line, the first of them corrupted
      [] kind = "lines" ->
            [BridgeFrame["store"] EXCEPT ![Len(BridgeFrame["store"]) - ChecksumDigits] = 93]
                \o <<10>> \o BridgeFrame["status"] \o <<10>> \o BridgeFrame["store"]
      \* one frame in two reads, cut in the middle
      [] kind = "prefix" -> SubSeq(BridgeFrame["store"], 1, Len(BridgeFrame["store"]) \div 2)
      [] kind = "suffix" -> Drop(BridgeFrame["store"], Len(BridgeFrame["store"]) \div 2)
      [] kind = "newline" -> NewlineFrame]

(* ---- hub steps ---- *)

NoIncoming == [client |-> 0, kind |-> "none", log |-> <<>>]

NoWrites == [c \in Conns |-> <<>>]

\* addClient that registers the socket and sends no welcome
Connect_NoWelcome(c) ==
    /\ microtasks = <<>>
    /\ c \notin open
    /\ clients' = insertionOrder(clients, c)
    /\ lastWrites' = NoWrites
    /\ open' = open \cup {c}
    /\ lastIn' = NoIncoming
    /\ lastOp' = NoOp
    /\ UNCHANGED <<packages, packageOrder, tcpAttached, eventHandlers, invoked, pickCalls, writeThrows, errored, microtasks, bridgeVars, codecVars>>

\* net.createServer's connection callback: WMSProtocol.addClient
Connect(c) ==
    /\ microtasks = <<>>
    /\ c \notin open
    /\ \E h \in { sendToClient([Quiet EXCEPT !.clients = insertionOrder(@, c)], c, <<83, 84, 83, 95, 82, 83, 80>>,   \* 'STS_RSP'
                    JObj(<< Member(<<115, 116, 97, 116, 117, 115>>, JStr(<<99, 111, 110, 110, 101, 99, 116, 101, 100>>)),   \* 'status', 'connected'
                            Member(<<115, 101, 114, 118, 101, 114, 84, 105, 109, 101>>, JBigNum(HubNow)),   \* 'serverTime'
                            Member(<<112, 114, 111, 116, 111, 99, 111, 108, 86, 101, 114, 115, 105, 111, 110>>, JStr(<<49, 46, 48>>)) >>)) } :   \* 'protocolVersion', '1.0'
       /\ clients' = h.clients
       /\ lastWrites' = h.writes
    /\ open' = open \cup {c}
    /\ lastIn' = NoIncoming
    /\ lastOp' = NoOp
    /\ UNCHANGED <<packages, packageOrder, tcpAttached, eventHandlers, invoked, pickCalls, writeThrows, errored, microtasks, bridgeVars, codecVars>>

\* an 'error' listener that only logs and leaves the removal to 'close'
ClientError_LogsOnly(c) ==
    /\ c \in open \ errored
    /\ errored' = errored \cup {c}
    /\ lastWrites' = NoWrites
    /\ lastIn' = NoIncoming
    /\ lastOp' = NoOp
    /\ UNCHANGED <<packages, packageOrder, tcpAttached, eventHandlers, invoked, pickCalls, open, clients, writeThrows, microtasks, bridgeVars, codecVars>>

\* the socket's 'error' listener: this.clients.delete(client); Node emits
\* 'close' on the socket afterwards, and no 'data' in between.  The event is
\* emitted from the nextTick queue, so the listener also runs between a
\* 'data' callback and the reactions that callback queued
ClientError(c) ==
    /\ c \in open \ errored
    /\ clients' = orderDelete(clients, c)
    /\ errored' = errored \cup {c}
    /\ lastWrites' = NoWrites
    /\ lastIn' = NoIncoming
    /\ lastOp' = NoOp
    /\ UNCHANGED <<packages, packageOrder, tcpAttached, eventHandlers, invoked, pickCalls, open, writeThrows, microtasks, bridgeVars, codecVars>>

\* the socket's 'close' listener: this.clients.delete(client)
Disconnect(c) ==
    /\ microtasks = <<>>
    /\ c \in open
    /\ open' = open \ {c}
    /\ clients' = orderDelete(clients, c)
    /\ writeThrows' = writeThrows \ {c}
    /\ errored' = errored \ {c}
    /\ lastWrites' = NoWrites
    /\ lastIn' = NoIncoming
    /\ lastOp' = NoOp
    /\ UNCHANGED <<packages, packageOrder, tcpAttached, eventHandlers, invoked, pickCalls, microtasks, bridgeVars, codecVars>>

\* from now on client.write throws on this socket
BreakSocket(c) ==
    /\ microtasks = <<>>
    /\ c \in open \ (writeThrows \cup errored)
    /\ writeThrows' = writeThrows \cup {c}
    /\ lastWrites' = NoWrites
    /\ lastIn' = NoIncoming
    /\ lastOp' = NoOp
    /\ UNCHANGED <<packages, packageOrder, tcpAttached, eventHandlers, invoked, pickCalls, open, clients, errored, microtasks, bridgeVars, codecVars>>

\* a heartbeat that reports the sockets still open instead of the live set
Heartbeat_CountsOpen ==
    /\ microtasks = <<>>
    /\ \E h \in { IF Len(clients) > 0
                THEN broadcast(Quiet, <<72, 66, 84, 95, 67, 72, 75>>,   \* 'HBT_CHK'
                        JObj(<< Member(<<116, 105, 109, 101, 115, 116, 97, 109, 112>>, JBigNum(HubNow)),   \* 'timestamp'
                                Member(<<97, 99, 116, 105, 118, 101, 67, 108, 105, 101, 110, 116, 115>>, JNum(Cardinality(open))) >>))   \* 'activeClients'
                ELSE Quiet } :
       /\ clients' = h.clients
       /\ lastWrites' = h.writes
       /\ lastIn' = [NoIncoming EXCEPT !.log = h.log]
    /\ lastOp' = NoOp
    /\ UNCHANGED <<packages, packageOrder, tcpAttached, eventHandlers, invoked, pickCalls, open, writeThrows, errored, microtasks, bridgeVars, codecVars>>

\* the interval callback of startHeartbeat
Heartbeat ==
    /\ microtasks = <<>>
    /\ \E h \in { IF Len(clients) > 0
                THEN broadcast(Quiet, <<72, 66, 84, 95, 67, 72, 75>>,   \* 'HBT_CHK'
                        JObj(<< Member(<<116, 105, 109, 101, 115, 116, 97, 109, 112>>, JBigNum(HubNow)),   \* 'timestamp'
                                Member(<<97, 99, 116, 105, 118, 101, 67, 108, 105, 101, 110, 116, 115>>, JNum(Len(clients))) >>))   \* 'activeClients'
                ELSE Quiet } :
       /\ clients' = h.clients
       /\ lastWrites' = h.writes
       /\ lastIn' = [NoIncoming EXCEPT !.log = h.log]
    /\ lastOp' = NoOp
    /\ UNCHANGED <<packages, packageOrder, tcpAttached, eventHandlers, invoked, pickCalls, open, writeThrows, errored, microtasks, bridgeVars, codecVars>>

\* the socket's 'data' listener: handleClientData, with the 'message'
\* handlers it calls; the reactions it queued are left to run
HandleIncoming(c, kind) ==
    /\ microtasks = <<>>
    /\ c \in open \ errored
    /\ \E h \in { handleClientData(Quiet, c, IncomingData[kind]) } :
       /\ clients' = h.clients
       /\ lastWrites' = h.writes
       /\ lastIn' = [client |-> c, kind |-> kind, log |-> h.log]
       /\ microtasks' = h.microtasks
    /\ lastOp' = NoOp
    /\ UNCHANGED <<packages, packageOrder, tcpAttached, eventHandlers, invoked, pickCalls, open, writeThrows, errored, bridgeVars, codecVars>>

\* the reactions of getWarehouseStats().then(...): V8 runs every queued
\* reaction before Node looks at the nextTick queue again, so they are one
\* step; each writes its STS_RSP to the socket it was queued for, registered
\* or not
StatsReply ==
    /\ microtasks # <<>>
    /\ \E h \in { runMicrotasks([clients |-> clients, writes |-> lastWrites,
                                  log |-> lastIn.log, microtasks |-> microtasks], 1) } :
       /\ clients' = h.clients
       /\ lastWrites' = h.writes
       /\ lastIn' = [lastIn EXCEPT !.log = h.log]
    /\ microtasks' = <<>>
    /\ lastOp' = NoOp
    /\ UNCHANGED <<packages, packageOrder, tcpAttached, eventHandlers, invoked, pickCalls, open, writeThrows, errored, bridgeVars, codecVars>>

\* the listeners of setupEventListeners hand each update to protocol.broadcast
Publish(updates) ==
    \E h \in { IF updates = <<>> THEN Quiet
               ELSE broadcast(Quiet, Chars(updates[1].type), updatePayload(updates[1])) } :
    /\ clients' = h.clients
    /\ lastWrites' = h.writes
    /\ lastIn' = [NoIncoming EXCEPT !.log = h.log]
    /\ UNCHANGED <<tcpAttached, eventHandlers, invoked, pickCalls, open, writeThrows, errored, microtasks, bridgeVars, codecVars>>

\* the HTTP routes of the WMS server calling the handler, which broadcasts
HubReceive == \E id \in HubPackageIds :
    /\ microtasks = <<>>
    /\ receivePackage(id, "CLIENT001")
    /\ Publish(lastOp'.broadcast)

HubStore == \E id \in HubPackageIds, loc \in HubLocations :
    /\ microtasks = <<>>
    /\ Room(id)
    /\ storePackage(id, loc)
    /\ Publish(lastOp'.broadcast)

-----------------------------------------------------------------------------
(* Specifications *)

WMSIdle ==
    /\ packages = EmptyMap
    /\ packageOrder = <<>>
    /\ tcpAttached = FALSE
    /\ lastOp = NoOp
    /\ eventHandlers = EmptyMap
    /\ invoked = NoCalls
    /\ pickCalls = [c \in Callers |-> NoCall]

BridgeIdle ==
    /\ now = 0
    /\ tcpUp = TRUE
    /\ pendingRequests = EmptyMap
    /\ tcpResponses = EmptyMap
    /\ calls = [r \in Requests |-> IdleCall]
    /\ outbox = {}
    /\ lateSeen = {}
    /\ tcpConnected = FALSE
    /\ otherSockets = NoSockets
    /\ reconnectTimers = 0
    /\ closePending = 0
    /\ staleHeartbeats = FALSE
    /\ crashed = FALSE
    /\ hubReachable = TRUE

HubIdle ==
    /\ open = {}
    /\ clients = <<>>
    /\ writeThrows = {}
    /\ errored = {}
    /\ lastWrites = NoWrites
    /\ lastIn = NoIncoming
    /\ microtasks = <<>>

CodecIdle ==
    /\ msgType = <<>>
    /\ msgPayload = EmptyPayload
    /\ clock = <<>>
    /\ frame = NoFrame
    /\ received = NoFrame
    /\ parsed = NotParsed
    /\ corruption = NoCorruption
    /\ codecPc = "idle"

InitWMS ==
    /\ packages = EmptyMap
    /\ packageOrder = <<>>
    /\ tcpAttached \in BOOLEAN
    /\ lastOp = NoOp
    /\ eventHandlers = EmptyMap
    /\ invoked = NoCalls
    /\ pickCalls = [c \in Callers |-> NoCall]
    /\ BridgeIdle
    /\ CodecIdle
    /\ HubIdle

NextWMS == Receive \/ Store \/ Pick \/ Load \/ Track

SpecWMS == InitWMS /\ [][NextWMS]_vars

\* the PackageManager used directly: packages are received and then updated
\* with any status, valid or not
NextManager == Receive \/ UpdatePackageStatus

SpecManager == InitWMS /\ [][NextManager]_vars

\* the PackageManager with handlers registered by its user, some of which throw
NextSubscribers == Subscribe \/ SubscribedReceive \/ SubscribedUpdate

InitSubscribers ==
    /\ WMSIdle
    /\ BridgeIdle
    /\ CodecIdle
    /\ HubIdle

SpecSubscribers == InitSubscribers /\ [][NextSubscribers]_vars

InitBridge ==
    /\ BridgeIdle
    /\ WMSIdle
    /\ CodecIdle
    /\ HubIdle

NextBridge ==
    \/ \E r \in Requests : HandleRequest(r)
    \/ \E r \in Requests : PollTimer(r)
    \/ StatusResponse
    \/ Tick
    \/ SocketEnd
    \/ SocketClose
    \/ Reconnect
    \/ ConnectCallback

SpecBridge == InitBridge /\ [][NextBridge]_vars

\* the event loop runs every due timer and the clock advances
FairSpecBridge ==
    /\ SpecBridge
    /\ WF_vars(Tick)
    /\ \A r \in Requests : WF_vars(PollTimer(r))

\* the adapter's outbound connection: losses, reconnect timers, connection
\* attempts and their outcomes
NextLink ==
    \/ SocketEnd
    \/ SocketError
    \/ OtherSocketEnd
    \/ \E st \in SocketStates : OtherSocketError(st)
    \/ SocketClose
    \/ Reconnect
    \/ ConnectCallback
    \/ OtherConnectCallback
    \/ HubDown
    \/ HubUp

SpecLink == InitBridge /\ [][NextLink]_vars

\* the event loop runs every due timer and every completed connection attempt,
\* and emits the 'close' event of every destroyed socket
FairSpecLink ==
    /\ SpecLink
    /\ WF_vars(SocketClose)
    /\ WF_vars(Reconnect)
    /\ WF_vars(ConnectCallback)
    /\ WF_vars(OtherConnectCallback)

InitCodecWith(payloads) ==
    /\ msgType \in MESSAGE_TYPES
    /\ msgPayload \in payloads
    /\ clock \in Timestamps
    /\ frame = NoFrame
    /\ received = NoFrame
    /\ parsed = NotParsed
    /\ corruption = NoCorruption
    /\ codecPc = "input"
    /\ WMSIdle
    /\ BridgeIdle
    /\ HubIdle

InitCodec == InitCodecWith(Payloads)

NextCodec == CreateMessage \/ ParseMessage

SpecCodec == InitCodec /\ [][NextCodec]_vars

InitCorruption == InitCodecWith(SmallPayloads)

NextCorruption ==
    \/ CreateMessage
    \/ ParseMessage
    \/ \E pos \in CorruptiblePositions, new \in Bytes : ParseCorrupted(pos, new)

SpecCorruption == InitCorruption /\ [][NextCorruption]_vars

\* the codec fed frames whose checksum was replaced or followed by one more
\* character, and strings shorter than any frame
NextTrailer ==
    \/ CreateMessage
    \/ ParseMessage
    \/ \E a, b \in ReplacementChars : ChecksumReplacedArrives(a, b)
    \/ \E b \in ExtraBytes : ExtraByteArrives(b)
    \/ \E s \in ShortInputs : ShortInputArrives(s)
    \/ ParseReceived

SpecTrailer == InitCorruption /\ [][NextTrailer]_vars

\* the WMS server after start(): a handler with the TCP server attached
InitHub ==
    /\ packages = EmptyMap
    /\ packageOrder = <<>>
    /\ tcpAttached = TRUE
    /\ lastOp = NoOp
    /\ eventHandlers = EmptyMap
    /\ invoked = NoCalls
    /\ pickCalls = [c \in Callers |-> NoCall]
    /\ HubIdle
    /\ BridgeIdle
    /\ CodecIdle

NextHub ==
    \/ \E c \in Conns : Connect(c)
    \/ \E c \in Conns : ClientError(c)
    \/ \E c \in Conns : Disconnect(c)
    \/ \E c \in Conns : BreakSocket(c)
    \/ Heartbeat
    \/ \E c \in Conns, kind \in DataKinds : HandleIncoming(c, kind)
    \/ StatsReply
    \/ HubReceive

SpecHub == InitHub /\ [][NextHub]_vars

\* the hub's live set: connections are accepted, fail, close and break while
\* the heartbeat, status requests and lifecycle broadcasts write to them
NextRegistry ==
    \/ \E c \in Conns : Connect(c)
    \/ \E c \in Conns : ClientError(c)
    \/ \E c \in Conns : Disconnect(c)
    \/ \E c \in Conns : BreakSocket(c)
    \/ Heartbeat
    \/ \E c \in Conns : HandleIncoming(c, "status")
    \/ StatsReply
    \/ HubReceive

SpecRegistry == InitHub /\ [][NextRegistry]_vars

\* the hub broadcasting lifecycle updates, locations of any length included
NextFanout ==
    \/ \E c \in Conns : Connect(c)
    \/ \E c \in Conns : Disconnect(c)
    \/ \E c \in Conns : BreakSocket(c)
    \/ HubReceive
    \/ HubStore

SpecFanout == InitHub /\ [][NextFanout]_vars

\* the lifecycle engine under concurrent pick and fulfillment requests, after
\* some of the packages have been received
ReceiveOrder == <<"PKG001", "PKG002">>

InitPicks ==
    /\ \E known \in SUBSET PackageIds :
          /\ packages = [id \in known |-> Package(id, "CLIENT001")]
          /\ packageOrder = SelectSeq(ReceiveOrder, LAMBDA id : id \in known)
    /\ tcpAttached = TRUE
    /\ lastOp = NoOp
    /\ eventHandlers = EmptyMap
    /\ invoked = NoCalls
    /\ pickCalls = [c \in Callers |-> NoCall]
    /\ HubIdle
    /\ BridgeIdle
    /\ CodecIdle

NextPicks ==
    \/ Store
    \/ \E c \in Callers : PickRequest(c)
    \/ \E c \in Callers : FulfillRequest(c)
    \/ \E c \in Callers : PickContinue(c)

SpecPicks == InitPicks /\ [][NextPicks]_vars

-----------------------------------------------------------------------------
(* Frame codec: properties *)

\* C1: for every payload and every valid type code, parsing the frame that
\* createMessage built succeeds and returns that type and an equal payload.
C1_RoundTrip ==
    (codecPc = "parsed" /\ corruption = NoCorruption) =>
        /\ parsed.ok
        /\ parsed.type = msgType
        /\ parsed.payload = msgPayload

\* positions of the length field in a frame
LengthField == (TypeLen + 1)..(TypeLen + LengthDigits)

PayloadField == (TypeLen + LengthDigits + TimestampLen + 1)..(Len(frame) - ChecksumDigits)

\* a frame was parsed after one of its characters was changed
ParsedCorrupted == codecPc = "parsed" /\ corruption # NoCorruption

\* the change is in the length field, or moves the character code by something
\* that is not a multiple of the checksum modulus
ChangesChecksum ==
    \/ corruption.pos \in LengthField
    \/ (corruption.new - corruption.old) % ChecksumModulus # 0

ChecksumMismatch == ~parsed.ok /\ parsed.log = "Invalid checksum"

\* C2 (as the specification states it): changing any single character of the
\* header or the payload of a frame makes parseMessage reject it with a checksum
\* mismatch, and never return a message with another type or payload.
C2_CorruptionRejected ==
    ParsedCorrupted =>
        /\ ChecksumMismatch
        /\ ~(parsed.ok /\ (parsed.type # msgType \/ parsed.payload # msgPayload))

\* positions of the type code and of the timestamp in a frame
TypeField == 1..TypeLen

TimestampField == (TypeLen + LengthDigits + 1)..(TypeLen + LengthDigits + TimestampLen)

\* parseMessage returned a message that differs from the one that was encoded
\* in the field the changed character lies in, and in nothing else
DiffersInChangedField ==
    /\ parsed.ok
    /\ (parsed.type # msgType) = (corruption.pos \in TypeField)
    /\ (parsed.timestamp # parseInt(clock)) = (corruption.pos \in TimestampField)
    /\ (parsed.payload # msgPayload) = (corruption.pos \in PayloadField)

\* parseMessage returned null because JSON.parse threw on the changed payload
PayloadUnparseable ==
    /\ ~parsed.ok
    /\ parsed.log = "Error parsing message"
    /\ corruption.pos \in PayloadField

\* C2 (as the code has it), for the frames of payloads whose JSON text has at
\* most 9999 characters: a single changed character is rejected with a checksum
\* mismatch when it lies in the length field or when its code moved by something
\* that is not a multiple of 100 (every single-bit flip is such a change); any
\* other single change in the type, the timestamp or the payload leaves the
\* checksum valid and is never reported as a checksum mismatch: parseMessage
\* then returns a message with the changed type, timestamp or payload and the
\* other two as they were, or null because the changed payload is not JSON.
C2_CorruptionRejectedUnlessMultipleOf100 ==
    ParsedCorrupted =>
        /\ ChangesChecksum => ChecksumMismatch
        /\ ~ChangesChecksum => (DiffersInChangedField \/ PayloadUnparseable)

\* a timestamp digit moved by 100 and the frame was accepted, with the type
\* and the payload that were encoded and another timestamp
C2_Witness ==
    /\ ParsedCorrupted
    /\ corruption.pos \in TimestampField
    /\ ~ChangesChecksum
    /\ parsed.ok
    /\ parsed.type = msgType
    /\ parsed.payload = msgPayload
    /\ parsed.timestamp # parseInt(clock)

-----------------------------------------------------------------------------
(* Lifecycle engine: properties *)

Rank(status) == CHOOSE i \in DOMAIN validStatuses : validStatuses[i] = status

IsAppendOrSame(before, after) ==
    \/ after = before
    \/ /\ Len(after) = Len(before) + 1
       /\ SubSeq(after, 1, Len(before)) = before

\* C3: in every reachable state the statuses recorded in each package's event
\* history are non-decreasing under received < stored < picked < loaded.
C3_LifecycleMonotone ==
    \A id \in DOMAIN packages :
        \A i \in 1..(Len(packages[id].events) - 1) :
            Rank(packages[id].events[i].eventType)
                <= Rank(packages[id].events[i + 1].eventType)

\* C4: a Receive on an existing packageId fails with DuplicatePackage and leaves
\* the store unchanged; on a new packageId it creates a package in status
\* received with exactly one seed event.
C4_ReceiveDuplicateRejected ==
    [][ (lastOp'.op = "receive" /\ lastOp'.error # "Required") =>
          IF lastOp'.packageId \in DOMAIN packages
          THEN /\ lastOp'.error = "DuplicatePackage"
               /\ packages' = packages
          ELSE /\ lastOp'.error = "none"
               /\ lastOp'.packageId \in DOMAIN packages'
               /\ packages'[lastOp'.packageId].status = "received"
               /\ Len(packages'[lastOp'.packageId].events) = 1
      ]_vars

\* C5: Pick on a known package succeeds exactly when its status is stored and
\* then sets the status to picked; in any other status it fails with an
\* invalid-transition error naming the current and the expected status, and
\* changes no package, notifies no subscriber and broadcasts nothing.
C5_PickOnlyFromStored ==
    [][ (lastOp'.op = "pick" /\ lastOp'.packageId \in DOMAIN packages) =>
          LET id == lastOp'.packageId IN
          IF packages[id].status = "stored"
          THEN /\ lastOp'.error = "none"
               /\ packages'[id].status = "picked"
          ELSE /\ lastOp'.error = "InvalidTransition"
               /\ lastOp'.current = packages[id].status
               /\ lastOp'.expected = "stored"
               /\ packages' = packages
               /\ lastOp'.emitted = <<>>
               /\ lastOp'.broadcast = <<>>
      ]_vars

\* a Pick has just failed on a loaded package while another package was picked
\* successfully before
C5_Witness ==
    /\ lastOp.op = "pick"
    /\ lastOp.error = "InvalidTransition"
    /\ lastOp.current = "loaded"
    /\ lastOp.expected = "stored"
    /\ \E id \in DOMAIN packages : packages[id].status = "picked"

\* C6: Store, Pick, Load and Track on a packageId that is not in the store fail
\* with package-not-found, create no package, append no event, notify no
\* subscriber and broadcast nothing.
C6_UnknownPackageNoEffect ==
    [][ (lastOp'.op \in {"store", "pick", "load", "track"}
            /\ lastOp'.packageId \notin DOMAIN packages) =>
          /\ lastOp'.error = "PackageNotFound"
          /\ packages' = packages
          /\ lastOp'.emitted = <<>>
          /\ lastOp'.broadcast = <<>>
      ]_vars

\* a Store has just failed on an unknown id while the store holds another package
C6_Witness ==
    /\ lastOp.op = "store"
    /\ lastOp.error = "PackageNotFound"
    /\ lastOp.packageId \notin DOMAIN packages
    /\ DOMAIN packages # {}

\* C7: in every step the history of each existing packageId is left as it was
\* or gains exactly one event at its end.
C7_HistoryAppendOnly ==
    [][ \A id \in DOMAIN packages :
            /\ id \in DOMAIN packages'
            /\ IsAppendOrSame(packages[id].events, packages'[id].events)
      ]_vars

-----------------------------------------------------------------------------
(* Correlator: properties *)

Waiting(r) == calls[r].pc = "waiting"
Settled(r) == calls[r].pc = "done"

\* the outcome delivered to the caller is the stored response that carries the
\* call's own id, or the timeout error
OutcomeOf(r) == calls[r].settled[1]
ProperOutcome(r) ==
    \/ /\ OutcomeOf(r).how = "resolve"
       /\ OutcomeOf(r).value.requestId = calls[r].requestId
    \/ /\ OutcomeOf(r).how = "reject"
       /\ OutcomeOf(r).value = TimeoutError

\* C8: every call that went through waitForTCPResponse settles exactly once:
\* never twice, never with both a response and a timeout, and a waiting call
\* does settle, with the payload of a stored matching response or with the
\* timeout error.
C8_ExactlyOnceResolution ==
    /\ [](\A r \in Requests :
            /\ Len(calls[r].settled) <= 1
            /\ Waiting(r) => calls[r].settled = <<>>
            /\ Settled(r) => (Len(calls[r].settled) = 1 /\ ProperOutcome(r)))
    /\ \A r \in Requests : [](Waiting(r) => <>Settled(r))

\* both calls have settled, one with a response and one with the timeout error
C8_Witness ==
    /\ \E r \in Requests : Settled(r) /\ OutcomeOf(r).how = "resolve"
    /\ \E r \in Requests : Settled(r) /\ OutcomeOf(r).how = "reject"

\* call r was rejected
Rejected(r) == Settled(r) /\ calls[r].settled # <<>> /\ OutcomeOf(r).how = "reject"

\* the step in which call r is rejected
TimesOut(r) ==
    /\ calls[r].settled = <<>>
    /\ calls'[r].settled # <<>>
    /\ calls'[r].settled[1].how = "reject"

\* C9: a waiting call whose response never arrives is rejected with the timeout
\* error once its deadline has elapsed, and in that step its id leaves the
\* pending-request set; whenever no call is waiting, the pending-request set
\* and the stored-response set are both empty.
C9_TimeoutCleanup ==
    /\ [][\A r \in Requests : TimesOut(r) =>
              /\ calls'[r].settled[1].value = TimeoutError
              /\ now - calls[r].startTime > WaitTimeout
              /\ calls[r].requestId \notin DOMAIN pendingRequests']_vars
    /\ \A r \in Requests :
          [](Waiting(r) => <>(Rejected(r) \/ calls[r].requestId \in DOMAIN tcpResponses))
    /\ []((\A r \in Requests : ~Waiting(r)) =>
              (DOMAIN pendingRequests = {} /\ DOMAIN tcpResponses = {}))

\* every call has been issued and rejected by timeout, and nothing is left
C9_Witness ==
    /\ \A r \in Requests : Settled(r) /\ OutcomeOf(r).how = "reject"
    /\ DOMAIN pendingRequests = {}
    /\ DOMAIN tcpResponses = {}

\* C10: once a call has been rejected by timeout, nothing that happens later,
\* a matching response included, changes what was delivered to it, resolves
\* another call under its id, or leaves an entry for its id in the
\* pending-request set or the stored-response set.
C10_LateResponseDiscarded ==
    /\ [](\A r \in Requests : Rejected(r) =>
              /\ calls[r].requestId \notin DOMAIN pendingRequests
              /\ calls[r].requestId \notin DOMAIN tcpResponses)
    /\ [][\A r \in Requests : Rejected(r) =>
              /\ calls'[r] = calls[r]
              /\ \A q \in Requests :
                    (calls[q].requestId = calls[r].requestId /\ calls'[q].settled # calls[q].settled)
                        => calls'[q].settled = <<[how |-> "reject", value |-> TimeoutError]>>
          ]_vars

\* a matching response has arrived for a call after it was rejected by timeout
C10_Witness ==
    \E r \in lateSeen :
        /\ Rejected(r)
        /\ calls[r].requestId \in outbox

\* C11: two calls that are waiting at the same time never carry the same
\* correlation id, two calls of the same kind issued in the same millisecond
\* included.
C11_FreshCorrelationIds ==
    \A r1, r2 \in Requests :
        (r1 # r2 /\ Waiting(r1) /\ Waiting(r2)) =>
            calls[r1].requestId # calls[r2].requestId

-----------------------------------------------------------------------------
(* Properties of the hub *)

\* TCPHTTPAdapter.parseTCPMessage: the adapter's copy of parseMessage
parseTCPMessage(rawMessage) == parseMessage(rawMessage)

\* message.payload[key], or undefined
Field(payload, key) ==
    IF payload.k = "obj" /\ \E i \in DOMAIN payload.o : payload.o[i].key = key
    THEN payload.o[CHOOSE i \in DOMAIN payload.o : payload.o[i].key = key].val
    ELSE JLit(<<117, 110, 100, 101, 102, 105, 110, 101, 100>>)   \* 'undefined'

\* the last callback was the data callback of a socket whose writes succeed,
\* and the reactions it queued have run
Answered(kind) ==
    /\ lastIn.kind = kind
    /\ lastIn.client \notin writeThrows
    /\ microtasks = <<>>

\* the frames of a given type among the given lines, as a line-oriented
\* reader decodes them
FramesOfType(lines, type) ==
    {i \in DOMAIN lines :
        \E message \in {parseTCPMessage(trim(lines[i]))} :
            message.ok /\ message.type = type}

\* the frames of a given type among the lines in lastWrites for a socket
WrittenOfType(c, type) == FramesOfType(lastWrites[c], type)

\* C12: after the hub handled a status request (STS_REQ) of the bridge, one
\* of the frames it wrote back to that connection is an STS_RSP whose payload
\* carries the requestId of the request.
C12_CorrelationIdEchoed ==
    Answered("status") =>
        \E i \in WrittenOfType(lastIn.client, <<83, 84, 83, 95, 82, 83, 80>>) :   \* 'STS_RSP'
            Field(parseTCPMessage(trim(lastWrites[lastIn.client][i])).payload,
                  <<114, 101, 113, 117, 101, 115, 116, 73, 100>>) = JStr(requestIdChars(<<115, 116, 97, 116, 117, 115>>))   \* 'requestId', 'status'
\* the last step was a successful call of the given lifecycle operation
Succeeded(op) == lastOp.op = op /\ lastOp.error = "none"

\* a string passed to client.write is one frame parseMessage accepts, of the
\* given type, followed by the line delimiter
IsFrameLine(w, type) ==
    /\ Len(w) > 1
    /\ w[Len(w)] = 10
    /\ parseMessage(SubSeq(w, 1, Len(w) - 1)).ok
    /\ parseMessage(SubSeq(w, 1, Len(w) - 1)).type = type

\* C13: after a successful Store, every connection of the live set was
\* written exactly one string, a PKG_STR frame that parseMessage accepts, and
\* no other connection was written to.
C13_BroadcastFanOut ==
    Succeeded("store") =>
        \A c \in Conns :
            IF c \in Live
            THEN Len(lastWrites[c]) = 1 /\ IsFrameLine(lastWrites[c][1], <<80, 75, 71, 95, 83, 84, 82>>)   \* 'PKG_STR'
            ELSE lastWrites[c] = <<>>
\* f is laid out as createMessage lays a frame out: a known type, the
\* payload length in at least LengthDigits digits, TimestampLen digits, a
\* JSON text of exactly that length and the checksum of all that
IsWholeFrame(f) ==
    \E extra \in 0..1 : \E n \in {Len(f) - MinMessageLen - extra} :
        /\ n >= 0
        /\ \E length \in {padStart(Digits(n), LengthDigits, 48)} :
            LET headerLen == TypeLen + Len(length) + TimestampLen IN
            /\ Len(length) = LengthDigits + extra
            /\ SubSeq(f, 1, TypeLen) \in MESSAGE_TYPES
            /\ SubSeq(f, TypeLen + 1, TypeLen + Len(length)) = length
            /\ \A i \in (TypeLen + Len(length) + 1)..headerLen : f[i] \in 48..57
            /\ JSONParse(SubSeq(f, headerLen + 1, headerLen + n)).ok
            /\ SubSeq(f, headerLen + n + 1, Len(f))
                   = calculateChecksum(SubSeq(f, 1, headerLen + n))

\* C14: every string the hub passes to client.write, on every connection and
\* in every callback (heartbeat, lifecycle broadcast, replies to incoming
\* data), is one whole frame followed by the line delimiter; a callback runs
\* to completion, so the bytes on a connection are a concatenation of whole
\* frames.
C14_WritesAreWholeFrames ==
    \A c \in Conns : \A i \in DOMAIN lastWrites[c] :
        LET w == lastWrites[c][i] IN
        /\ Len(w) > 1
        /\ w[Len(w)] = 10
        /\ \E f \in {SubSeq(w, 1, Len(w) - 1)} : IsWholeFrame(f)

\* one callback wrote several frames to one connection while another
\* connection was live
C14_Witness ==
    \E c \in Live :
        /\ Len(lastWrites[c]) >= 2
        /\ Live # {c}
\* C15: when a read delivers only the first part of a valid frame, the hub
\* keeps it for the next read and does not answer it with ERR_MSG.
C15_PartialReadNotRejected ==
    Answered("prefix") => WrittenOfType(lastIn.client, <<69, 82, 82, 95, 77, 83, 71>>) = {}   \* 'ERR_MSG'
\* C16: a valid frame whose payload contains a line break is decoded by the
\* hub as one frame: it is acknowledged once and no part of it is answered
\* with ERR_MSG.
C16_NewlineInPayloadDecoded ==
    Answered("newline") =>
        /\ Cardinality(WrittenOfType(lastIn.client, <<65, 67, 75, 95, 77, 83, 71>>)) = 1   \* 'ACK_MSG'
        /\ WrittenOfType(lastIn.client, <<69, 82, 82, 95, 77, 83, 71>>) = {}   \* 'ERR_MSG'
\* the non-empty pieces handleClientData finds in the data of each kind
FragmentsOf == [kind \in DataKinds |->
    SelectSeq(split(trim(IncomingData[kind])), LAMBDA s : s # <<>>)]

Fragments(kind) == FragmentsOf[kind]

\* the positions of the pieces of each kind that parseMessage decodes
DecodedOf == [kind \in DataKinds |->
    {i \in DOMAIN FragmentsOf[kind] : parseMessage(FragmentsOf[kind][i]).ok}]

\* the replies to the last read once its reactions have run, in numbers and
\* in order: one ERR_MSG per piece that does not decode, one ACK_MSG per piece
\* that does, each dispatch right after the ACK_MSG of its frame, every
\* STS_RSP after the dispatch of an STS_REQ, and nothing written to any other
\* socket
RepliesInOrder ==
    LET c == lastIn.client
        log == lastIn.log
        frags == Fragments(lastIn.kind)
        good == DecodedOf[lastIn.kind]
        emits == {j \in DOMAIN log : log[j].fx = "emit"}
    IN  /\ Cardinality(WrittenOfType(c, <<69, 82, 82, 95, 77, 83, 71>>)) = Len(frags) - Cardinality(good)   \* 'ERR_MSG'
        /\ Cardinality(WrittenOfType(c, <<65, 67, 75, 95, 77, 83, 71>>)) = Cardinality(good)   \* 'ACK_MSG'
        /\ Cardinality(emits) = Cardinality(good)
        /\ \A j \in emits :
               /\ j > 1
               /\ log[j - 1] = [fx |-> "write", to |-> c, type |-> <<65, 67, 75, 95, 77, 83, 71>>]   \* 'ACK_MSG'
        /\ \A j \in DOMAIN log :
               (log[j].fx = "write" /\ log[j].type = <<83, 84, 83, 95, 82, 83, 80>>) =>   \* 'STS_RSP'
                   \E i \in emits : i < j /\ log[i].type = <<83, 84, 83, 95, 82, 69, 81>>   \* 'STS_REQ'
        /\ Len(lastWrites[c]) = Cardinality({j \in DOMAIN log : log[j].fx = "write"})
        /\ \A d \in Conns \ {c} : lastWrites[d] = <<>>

\* C17 (as the specification states it): once a read on a connection has been
\* handled, every piece that failed to decode was answered with exactly one
\* ERR_MSG and not dispatched, every decoded frame was answered with exactly
\* one ACK_MSG written before its dispatch and before any STS_RSP, and the
\* connection is still in the live set.
C17_IncomingFrameReplies ==
    (lastIn.kind \in DataKinds /\ microtasks = <<>>) =>
        /\ RepliesInOrder
        /\ lastIn.client \in Live

\* the lines among the given ones that begin with the given type code
LinesOfType(lines, type) ==
    {i \in DOMAIN lines : SubSeq(lines[i], 1, TypeLen) = type}

\* what the 'data' callback of socket c has just done with data of the given
\* kind: one ERR_MSG per piece that does not decode, one ACK_MSG per piece
\* that does, each dispatch right after the ACK_MSG of its frame, no STS_RSP
\* yet but one reaction queued per dispatched STS_REQ, and nothing written to
\* any other socket
DataCallbackReplies(c, kind) ==
    LET log == lastIn'.log
        good == DecodedOf[kind]
        emits == {j \in DOMAIN log : log[j].fx = "emit"}
    IN  /\ Cardinality(LinesOfType(lastWrites'[c], <<69, 82, 82, 95, 77, 83, 71>>)) = Len(Fragments(kind)) - Cardinality(good)   \* 'ERR_MSG'
        /\ Cardinality(LinesOfType(lastWrites'[c], <<65, 67, 75, 95, 77, 83, 71>>)) = Cardinality(good)   \* 'ACK_MSG'
        /\ Len(lastWrites'[c]) = Len(Fragments(kind))
        /\ Cardinality(emits) = Cardinality(good)
        /\ \A j \in emits :
               /\ j > 1
               /\ log[j - 1] = [fx |-> "write", to |-> c, type |-> <<65, 67, 75, 95, 77, 83, 71>>]   \* 'ACK_MSG'
        /\ Len(microtasks') = Cardinality({j \in emits : log[j].type = <<83, 84, 83, 95, 82, 69, 81>>})   \* 'STS_REQ'
        /\ \A i \in DOMAIN microtasks' : microtasks'[i].client = c
        /\ \A d \in Conns \ {c} : lastWrites'[d] = <<>>

\* what the reactions have just done on the sockets whose writes succeed: one
\* STS_RSP, and nothing else, per reaction queued for the socket, registered
\* or not, and no change of its membership in the live set
StatsReplies ==
    \A c \in Conns \ writeThrows :
        LET queued == Cardinality({i \in DOMAIN microtasks : microtasks[i].client = c})
            before == Len(lastWrites[c])
            new == SubSeq(lastWrites'[c], before + 1, Len(lastWrites'[c]))
        IN  /\ Len(lastWrites'[c]) = before + queued
            /\ SubSeq(lastWrites'[c], 1, before) = lastWrites[c]
            /\ Cardinality(LinesOfType(new, <<83, 84, 83, 95, 82, 83, 80>>)) = queued   \* 'STS_RSP'
            /\ (c \in Live') = (c \in Live)

\* the step is the 'data' callback of socket lastIn'.client: it is taken while
\* no reaction is queued and leaves data of some kind in lastIn (every other
\* callback that runs then leaves NoIncoming's kind there)
DataCallbackStep == microtasks = <<>> /\ lastIn'.kind \in DataKinds

\* C17 (as the code has it): on a socket whose client.write does not throw,
\* the 'data' callback answers every piece that fails to decode with exactly
\* one ERR_MSG and dispatches nothing for it, answers every decoded frame with
\* exactly one ACK_MSG written before the frame is dispatched, writes no
\* STS_RSP itself and leaves the live set as it was; the STS_RSP answers are
\* written afterwards by the reactions the dispatch queued, one per status
\* request, whether or not the socket's 'error' listener has unregistered it
\* in between, and the reactions do not change the socket's registration; when
\* no error came in between, the socket is still in the live set after them.
C17_RepliesWhenWritesSucceed ==
    /\ [][(DataCallbackStep /\ lastIn'.client \notin writeThrows) =>
               (DataCallbackReplies(lastIn'.client, lastIn'.kind) /\ Live' = Live)]_vars
    /\ [][StatsReply => StatsReplies]_vars
    /\ []((lastIn.kind \in DataKinds /\ lastIn.client \notin writeThrows /\ microtasks = <<>>) =>
             (RepliesInOrder /\ lastIn.client \in Live))

\* one read carried a piece that fails to decode, a status request and a
\* second frame; the callback answered them and the reaction then wrote the
\* STS_RSP
C17_Witness ==
    /\ Answered("lines")
    /\ lastIn.client \in Live
    /\ Len(lastIn.log) = 6
    /\ lastIn.log[6] = [fx |-> "write", to |-> lastIn.client, type |-> <<83, 84, 83, 95, 82, 83, 80>>]   \* 'STS_RSP'
    /\ WrittenOfType(lastIn.client, <<83, 84, 83, 95, 82, 83, 80>>) # {}   \* 'STS_RSP'
\* the kinds of incoming data with a piece that parseMessage rejects
MalformedKinds ==
    {kind \in DataKinds :
        DecodedOf[kind] # DOMAIN FragmentsOf[kind]}

\* C18: a data callback that meets a malformed frame on one socket writes
\* nothing to any other socket, leaves every other socket's membership in the
\* live set alone, leaves the socket itself in the live set when the reply to
\* it can be written, and changes no package.
C18_ErrorContainment ==
    [][ (lastIn'.kind \in MalformedKinds) =>
            /\ \A d \in Conns \ {lastIn'.client} : lastWrites'[d] = <<>>
            /\ Live' \ {lastIn'.client} = Live \ {lastIn'.client}
            /\ (lastIn'.client \notin writeThrows => Live' = Live)
            /\ packages' = packages ]_vars

\* a corrupted frame was answered on one socket while another socket was live
\* and a package was on record
C18_Witness ==
    /\ Answered("corrupt")
    /\ WrittenOfType(lastIn.client, <<69, 82, 82, 95, 77, 83, 71>>) # {}   \* 'ERR_MSG'
    /\ Live \ {lastIn.client} # {}
    /\ packages # EmptyMap
\* C19: when a lifecycle operation broadcasts while client.write throws on
\* some live sockets, the operation still succeeds and its change is kept,
\* exactly the sockets whose write threw leave the live set, and every other
\* live socket is written the frame exactly once.
C19_WriteFailureIsolation ==
    [][ (lastOp'.broadcast # <<>> /\ Live \cap writeThrows # {}) =>
            /\ lastOp'.error = "none"
            /\ packages'[lastOp'.packageId].status = lastOp'.broadcast[1].status
            /\ Live' = Live \ writeThrows
            /\ \A c \in Live \ writeThrows :
                   /\ Len(lastWrites'[c]) = 1
                   /\ SubSeq(lastWrites'[c][1], 1, TypeLen) = Chars(lastOp'.broadcast[1].type)
            /\ \A c \in Conns \ (Live \ writeThrows) : lastWrites'[c] = <<>> ]_vars

\* a Store broadcast in which the write to one socket threw and the write to
\* another succeeded
C19_Witness ==
    /\ Succeeded("store")
    /\ \E i \in DOMAIN lastIn.log : lastIn.log[i].fx = "throw"
    /\ \E i \in DOMAIN lastIn.log : lastIn.log[i].fx = "write"
\* C20: when the hub decodes and dispatches a PKG_STR frame of a client for a
\* package on record, the step calls the handler's Store for that package.
C20_StateChangingFramesRouted ==
    (/\ Answered("store")
     /\ \E i \in DOMAIN lastIn.log :
            lastIn.log[i].fx = "emit" /\ lastIn.log[i].type = <<80, 75, 71, 95, 83, 84, 82>>   \* 'PKG_STR'
     /\ hasPackage(packages, "PKG001")) =>
        /\ lastOp.op = "store"
        /\ packages["PKG001"].status = "stored"

\* C21: when the outbound connection closes while calls are waiting for their
\* responses, those calls are failed at once with a connection-lost error: no
\* call is still waiting while the connection is down.
C21_CloseFailsOutstanding ==
    ~tcpUp => \A r \in Requests : ~Waiting(r)

\* the bridge holds an established connection to the hub
Connected == tcpUp /\ tcpConnected

\* C22: every loss of the outbound connection schedules a new connection
\* attempt, and if from some point on the hub stays reachable, the bridge is
\* connected again and again: a loss after that point is always followed by an
\* established connection.
C22_ReconnectionLiveness ==
    /\ [][(tcpUp /\ ~tcpUp') => closePending' > closePending]_vars
    /\ [][closePending' < closePending => (reconnectTimers' > reconnectTimers \/ crashed')]_vars
    /\ (<>[]hubReachable) => []<>Connected

\* the same, for as long as the adapter process lives
C22_ReconnectsUnlessCrashed ==
    (<>[]hubReachable) => []<>(Connected \/ crashed)

-----------------------------------------------------------------------------
(* Concurrent picks: properties *)

\* the calls whose pickPackage promise has settled and that are not yet answered
InFlight(c) == pickCalls[c].pc = "settled" /\ pickCalls[c].error # "NotPicked"
PickSucceeded(c) == InFlight(c) /\ pickCalls[c].error = "none"

\* C23: of two pickPackage calls in flight together for the same package, no
\* two succeed from the same point of its history; when one succeeded, the call
\* that ran next on that package failed with an invalid-transition error; and a
\* successful call added exactly one event, a picked one, to the history it
\* found.
C23_AtomicTransitionDecision ==
    /\ \A c1, c2 \in Callers :
          (c1 # c2 /\ InFlight(c1) /\ InFlight(c2)
              /\ pickCalls[c1].packageId = pickCalls[c2].packageId
              /\ PickSucceeded(c1)) =>
                /\ PickSucceeded(c2) => pickCalls[c2].at # pickCalls[c1].at
                /\ pickCalls[c2].at = pickCalls[c1].at + 1 =>
                       pickCalls[c2].error = "InvalidTransition"
    /\ \A c \in Callers : PickSucceeded(c) =>
          LET events == packages[pickCalls[c].packageId].events
              at == pickCalls[c].at IN
          /\ Len(events) > at
          /\ events[at + 1].eventType = "picked"
          /\ (Len(events) > at + 1 => events[at + 2].eventType # "picked")

\* two calls for one package are in flight: one picked it, the other was
\* refused because the package was no longer stored
C23_Witness ==
    \E c1, c2 \in Callers :
        /\ c1 # c2
        /\ PickSucceeded(c1)
        /\ InFlight(c2)
        /\ pickCalls[c2].packageId = pickCalls[c1].packageId
        /\ pickCalls[c2].at = pickCalls[c1].at + 1
        /\ pickCalls[c2].error = "InvalidTransition"
        /\ packages[pickCalls[c1].packageId].status = "picked"

\* a frame has been built from the inputs
Created == codecPc \in {"created", "parsed"}

\* C24: createMessage fails, emitting no frame, when the serialised payload is
\* longer than 9999 characters; every frame it emits is the type, a length
\* field of exactly four digits, the timestamp, the whole payload and the
\* checksum.
C24_EncodeSizeLimit ==
    Created =>
        LET jsonPayload == JSONStringify(msgPayload) IN
        IF Len(jsonPayload) > 9999
        THEN frame = NoFrame
        ELSE /\ Len(frame) = TypeLen + LengthDigits + TimestampLen + Len(jsonPayload) + ChecksumDigits
             /\ \A i \in LengthField : frame[i] \in 48..57
             /\ SubSeq(frame, TypeLen + LengthDigits + TimestampLen + 1, Len(frame) - ChecksumDigits)
                    = jsonPayload

\* what precedes the checksum in the frame built, and the sum of its character
\* codes modulo 100
FrameBody == SubSeq(frame, 1, Len(frame) - 2)
FrameSum == SumCodes(FrameBody, 1, Len(FrameBody)) % 100

\* C25: every frame createMessage produces is the type, the length field, the
\* timestamp and the serialised payload followed by exactly two decimal
\* digits, which spell the sum of the character codes of everything before
\* them modulo 100, with a leading zero when that value is below 10.
C25_ChecksumRule ==
    Created =>
        /\ Len(frame) >= 2
        /\ FrameBody = msgType
                         \o padStart(Digits(Len(JSONStringify(msgPayload))), 4, 48)
                         \o clock \o JSONStringify(msgPayload)
        /\ SubSeq(frame, Len(frame) - 1, Len(frame))
               = <<48 + (FrameSum \div 10), 48 + (FrameSum % 10)>>

\* a frame whose checksum value is below 10 has been built
C25_Witness ==
    /\ Created
    /\ FrameSum < 10
    /\ frame[Len(frame) - 1] = 48

\* where the payload declared by the length field of the received string ends
DeclaredEnd ==
    TypeLen + LengthDigits + TimestampLen
        + ToInteger(parseInt(SubSeq(received, TypeLen + 1, TypeLen + LengthDigits)))

\* the received string is the frame with another checksum, or with one more
\* character after the checksum
ChecksumReplaced ==
    /\ Len(received) = Len(frame)
    /\ SubSeq(received, 1, Len(frame) - 2) = SubSeq(frame, 1, Len(frame) - 2)
    /\ received # frame
ExtraByte == Len(received) = Len(frame) + 1 /\ SubSeq(received, 1, Len(frame)) = frame

\* C26: parseMessage returns a message only when what follows the declared
\* payload in the input is exactly two characters, the checksum of everything
\* before them; a valid frame whose checksum was replaced by two other
\* characters, or that is followed by one more character, is rejected with an
\* invalid-checksum error.
C26_ChecksumTrailerCheck ==
    codecPc = "parsed" =>
        /\ parsed.ok =>
              /\ Len(received) = DeclaredEnd + 2
              /\ LET s == SumCodes(received, 1, DeclaredEnd) % 100 IN
                 SubSeq(received, DeclaredEnd + 1, Len(received))
                     = <<48 + (s \div 10), 48 + (s % 10)>>
        /\ (ChecksumReplaced \/ ExtraByte) => (~parsed.ok /\ parsed.log = "Invalid checksum")

\* a frame followed by one more digit was parsed and rejected
C26_Witness ==
    /\ codecPc = "parsed"
    /\ ExtraByte
    /\ received[Len(received)] \in 48..57
    /\ ~parsed.ok
    /\ parsed.log = "Invalid checksum"

\* C27: parseMessage returns null for every input shorter than 26 characters,
\* and does so before it looks at the input: nothing is logged about a
\* checksum or a payload.
C27_MinimumLength ==
    (codecPc = "parsed" /\ Len(received) < 26) =>
        /\ ~parsed.ok
        /\ parsed.log = "none"

\* a string of 25 characters has been rejected without a log entry
C27_Witness ==
    /\ codecPc = "parsed"
    /\ Len(received) = 25
    /\ ~parsed.ok
    /\ parsed.log = "none"

\* without the length check the 16-character string is a message
ShortInputWouldParse ==
    /\ parseMessage_NoMinLength(ShortInput).ok
    /\ parseMessage_NoMinLength(ShortInput).payload = JNum(20)

\* what parseMessage hands to its caller: the message, or null
returnValue(p) ==
    IF p.ok THEN [type |-> p.type, timestamp |-> p.timestamp, payload |-> p.payload]
    ELSE Null

\* three inputs made from the frame built: its first 25 characters, the frame
\* with another last checksum digit, and a frame with the right checksum whose
\* payload is the text '{'
TooShortInput == SubSeq(frame, 1, MinMessageLen - 1)
WrongChecksumInput ==
    [frame EXCEPT ![Len(frame)] = IF @ = 48 THEN 49 ELSE 48]
MalformedPayloadInput == encodeFrame(msgType, <<123>>, clock)

\* C28: parseMessage reports a too-short input, a checksum mismatch and a
\* payload that is not JSON as three different outcomes: what it returns to the
\* caller differs between the three.
C28_DistinctDecodeErrors ==
    Created =>
        LET tooShort == returnValue(parseMessage(TooShortInput))
            mismatch == returnValue(parseMessage(WrongChecksumInput))
            malformed == returnValue(parseMessage(MalformedPayloadInput))
        IN  /\ tooShort # mismatch
            /\ mismatch # malformed
            /\ tooShort # malformed

\* the three inputs are rejected for three different reasons, which only the
\* console shows
C28_ReasonsOnlyLogged ==
    Created =>
        /\ parseMessage(TooShortInput).log = "none"
        /\ parseMessage(WrongChecksumInput).log = "Invalid checksum"
        /\ parseMessage(MalformedPayloadInput).log = "Error parsing message"
        /\ returnValue(parseMessage(TooShortInput)) = Null
        /\ returnValue(parseMessage(WrongChecksumInput)) = Null
        /\ returnValue(parseMessage(MalformedPayloadInput)) = Null

-----------------------------------------------------------------------------
(* Lifecycle engine: load and lifecycle events *)

\* C29: a Load of a known package succeeds whatever its status is (received,
\* stored, picked or loaded): it leaves the package loaded, assigned to the
\* vehicle given, and with exactly one more event, a loaded one.
C29_LoadFromAnyStatus ==
    [][\A id \in PackageIds, v \in Vehicles :
          (hasPackage(packages, id) /\ lastOp'.op = "load" /\ loadPackage(id, v)) =>
              /\ packages[id].status \in Range(validStatuses)
              /\ lastOp'.error = "none"
              /\ packages'[id].status = "loaded"
              /\ packages'[id].assignedVehicle = v
              /\ Len(packages'[id].events) = Len(packages[id].events) + 1
              /\ SubSeq(packages'[id].events, 1, Len(packages[id].events)) = packages[id].events
              /\ packages'[id].events[Len(packages'[id].events)].eventType = "loaded"
      ]_vars

\* one package was loaded right after it was received, never stored or
\* picked, and the other after it was received, stored and picked
C29_Witness ==
    \E id1, id2 \in PackageIds :
        /\ lastOp.op = "load"
        /\ lastOp.error = "none"
        /\ hasPackage(packages, id1) /\ hasPackage(packages, id2)
        /\ [i \in 1..Len(packages[id1].events) |-> packages[id1].events[i].eventType]
               = <<"received", "loaded">>
        /\ [i \in 1..Len(packages[id2].events) |-> packages[id2].events[i].eventType]
               = <<"received", "stored", "picked", "loaded">>

\* the frame type and the new status that belong to each operation
FrameTypeOf(op) ==
    CASE op = "receive" -> "PKG_RCV"
      [] op = "store"   -> "PKG_STR"
      [] op = "pick"    -> "PKG_PCK"
      [] op = "load"    -> "PKG_LDD"

NewStatusOf(op) ==
    CASE op = "receive" -> "received"
      [] op = "store"   -> "stored"
      [] op = "pick"    -> "picked"
      [] op = "load"    -> "loaded"

\* C30: a successful Receive, Store, Pick or Load notifies the subscribers
\* exactly once and, with the hub attached, broadcasts exactly one frame, whose
\* type belongs to the operation and whose status is the package's new status;
\* without the hub nothing is broadcast; a failed operation notifies nobody and
\* broadcasts nothing.
C30_OneEventPerTransition ==
    lastOp.op \in {"receive", "store", "pick", "load"} =>
        IF lastOp.error = "none"
        THEN /\ Len(lastOp.emitted) = 1
             /\ lastOp.emitted[1].packageId = lastOp.packageId
             /\ lastOp.emitted[1].status = NewStatusOf(lastOp.op)
             /\ packages[lastOp.packageId].status = NewStatusOf(lastOp.op)
             /\ IF tcpAttached
                THEN /\ Len(lastOp.broadcast) = 1
                     /\ lastOp.broadcast[1].type = FrameTypeOf(lastOp.op)
                     /\ lastOp.broadcast[1].packageId = lastOp.packageId
                     /\ lastOp.broadcast[1].status = packages[lastOp.packageId].status
                ELSE lastOp.broadcast = <<>>
        ELSE /\ lastOp.emitted = <<>>
             /\ lastOp.broadcast = <<>>

\* a Load has just succeeded with the hub attached and was broadcast as PKG_LDD
C30_Witness ==
    /\ tcpAttached
    /\ lastOp.op = "load"
    /\ lastOp.error = "none"
    /\ Len(lastOp.broadcast) = 1
    /\ lastOp.broadcast[1].type = "PKG_LDD"
    /\ lastOp.broadcast[1].status = "loaded"

-----------------------------------------------------------------------------
(* Lifecycle engine: history, statistics and invalid statuses *)

\* the events of packageId so far: none while the id is unknown
eventsOf(pkgs, packageId) ==
    IF hasPackage(pkgs, packageId) THEN pkgs[packageId].events ELSE <<>>

\* the step is a successful Receive, Store, Pick or Load of packageId
SucceededOn(packageId) ==
    /\ lastOp'.op \in {"receive", "store", "pick", "load"}
    /\ lastOp'.error = "none"
    /\ lastOp'.packageId = packageId

\* C31: each successful Receive, Store, Pick or Load applied to a packageId
\* makes its history exactly one event longer (so that the history has one
\* event per successful operation: 1 after Receive, 3 after Receive, Store,
\* Pick, 4 after the full lifecycle), and in every reachable state the
\* eventType of the last event of each package is the package's status.
C31_HistoryTracksStatus ==
    /\ [](\A id \in DOMAIN packages :
              /\ Len(packages[id].events) >= 1
              /\ packages[id].events[Len(packages[id].events)].eventType = packages[id].status)
    /\ [][\A id \in PackageIds :
              SucceededOn(id) =>
                  Len(eventsOf(packages', id)) = Len(eventsOf(packages, id)) + 1
         ]_vars

\* the part of C31 that holds: the last event is the current status
C31_LastEventIsStatus ==
    \A id \in DOMAIN packages :
        /\ Len(packages[id].events) >= 1
        /\ packages[id].events[Len(packages[id].events)].eventType = packages[id].status

\* the count of C31 for every successful operation but a Receive of a known id
C31_OneEventPerOperationButReReceive ==
    [][\A id \in PackageIds :
          (SucceededOn(id) /\ ~(lastOp'.op = "receive" /\ hasPackage(packages, id))) =>
              Len(eventsOf(packages', id)) = Len(eventsOf(packages, id)) + 1
      ]_vars

\* the ids of the packages that are in a status
InStatus(status) == {id \in DOMAIN packages : packages[id].status = status}

StatusFilters == Range(validStatuses) \cup {"unknown"}

\* C32: in every reachable state getStatistics gives a total equal to the
\* number of packages in the store and, for each status, a count equal to the
\* number of packages in that status, the counts adding up to the total;
\* getPackages(status) lists exactly the packages in that status, each once,
\* with count equal to the length of the list.
C32_StatisticsConsistent ==
    LET stats == packageStats(packages, packageOrder) IN
    /\ stats.totalPackages = Cardinality(DOMAIN packages)
    /\ DOMAIN stats.statusBreakdown \subseteq Range(validStatuses)
    /\ \A s \in Range(validStatuses) : countOf(stats, s) = Cardinality(InStatus(s))
    /\ countOf(stats, "received") + countOf(stats, "stored")
           + countOf(stats, "picked") + countOf(stats, "loaded") = stats.totalPackages
    /\ stats.readyForPickup = Cardinality(InStatus("stored"))
    /\ stats.loaded = Cardinality(InStatus("loaded"))
    /\ \A s \in StatusFilters :
           LET r == getPackages(packages, packageOrder, s) IN
           /\ Range(r.packages) = {packages[id] : id \in InStatus(s)}
           /\ Len(r.packages) = Cardinality(InStatus(s))
           /\ r.count = Len(r.packages)

\* two packages share a status, and later one is stored and the other loaded:
\* the statistics count two, then one and one
C32_Witness ==
    /\ Cardinality(DOMAIN packages) = 2
    /\ packageStats(packages, packageOrder).statusBreakdown = [s \in {"stored"} |-> 2]
    /\ getPackages(packages, packageOrder, "stored").count = 2
    /\ getPackages(packages, packageOrder, "loaded").count = 0

\* C33: Package.updateStatus with a status outside received, stored, picked,
\* loaded throws an invalid-status error and leaves the package as it was:
\* status, location, updatedAt and event history.  Checked for every package
\* of every reachable state, and for the store across the refused call.
C33_InvalidStatusRejected ==
    /\ [](\A id \in DOMAIN packages, st \in InvalidStatuses, loc \in Locations \cup {Null} :
              LET r == updateStatus(packages[id], st, loc, NoDescription) IN
              /\ r.threw
              /\ r.pkg.status = packages[id].status
              /\ r.pkg.location = packages[id].location
              /\ r.pkg.updatedAt = packages[id].updatedAt
              /\ r.pkg.events = packages[id].events)
    /\ [][ (lastOp'.op = "update" /\ lastOp'.error = "InvalidStatus") =>
               /\ packages' = packages
               /\ lastOp'.emitted = <<>>
               /\ lastOp'.broadcast = <<>>
         ]_vars
    /\ [](\A id \in DOMAIN packages : packages[id].status \in Range(validStatuses))

\* an update with an invalid status, and a location, has just been refused for
\* a package that was stored elsewhere and updated once before
C33_Witness ==
    /\ lastOp.op = "update"
    /\ lastOp.error = "InvalidStatus"
    /\ hasPackage(packages, lastOp.packageId)
    /\ packages[lastOp.packageId].status = "stored"
    /\ packages[lastOp.packageId].location = "A1"
    /\ packages[lastOp.packageId].updatedAt = 1
    /\ Len(packages[lastOp.packageId].events) = 2

-----------------------------------------------------------------------------
(* Hub: registration, removal and the heartbeat *)

\* the frame in a string passed to client.write: the string without its last
\* character, decoded
FrameOfWrite(w) == parseMessage(SubSeq(w, 1, Len(w) - 1))

\* C34: the step that registers a connection puts it into the live set and
\* writes to it, first, the STS_RSP welcome with status 'connected'; no step
\* writes anything to a connection that is not registered, so no broadcast,
\* heartbeat or reply reaches a connection before its welcome.
C34_WelcomeFirst ==
    [][\A c \in Conns :
          /\ (c \notin open /\ c \in open') =>
                /\ c \in Live'
                /\ Len(lastWrites'[c]) >= 1
                /\ LET m == FrameOfWrite(lastWrites'[c][1]) IN
                   /\ m.ok
                   /\ m.type = <<83, 84, 83, 95, 82, 83, 80>>   \* 'STS_RSP'
                   /\ Field(m.payload, <<115, 116, 97, 116, 117, 115>>) = JStr(<<99, 111, 110, 110, 101, 99, 116, 101, 100>>)   \* 'status', 'connected'
          /\ (c \notin open /\ c \notin open') => lastWrites'[c] = <<>>
      ]_vars

\* a connection has just been registered and welcomed while another live
\* connection was written nothing
C34_Witness ==
    \E c \in Live :
        /\ Len(lastWrites[c]) = 1
        /\ FrameOfWrite(lastWrites[c][1]).type = <<83, 84, 83, 95, 82, 83, 80>>   \* 'STS_RSP'
        /\ Field(FrameOfWrite(lastWrites[c][1]).payload, <<115, 116, 97, 116, 117, 115>>) = JStr(<<99, 111, 110, 110, 101, 99, 116, 101, 100>>)   \* 'status', 'connected'
        /\ Live # {c}
        /\ \A d \in Live \ {c} : lastWrites[d] = <<>>

\* the types of the frames the hub broadcasts: the heartbeat and the
\* lifecycle updates
BroadcastTypes ==
    { <<72, 66, 84, 95, 67, 72, 75>>,   \* 'HBT_CHK'
      <<80, 75, 71, 95, 82, 67, 86>>,   \* 'PKG_RCV'
      <<80, 75, 71, 95, 83, 84, 82>>,   \* 'PKG_STR'
      <<80, 75, 71, 95, 80, 67, 75>>,   \* 'PKG_PCK'
      <<80, 75, 71, 95, 76, 68, 68>> }  \* 'PKG_LDD'

\* C35: a connection whose 'error' or 'close' listener has run is not in the
\* live set; the 'close' that follows an 'error' changes nothing in the live
\* set; no step writes a heartbeat or a lifecycle broadcast to a connection
\* after its 'error' or 'close' (the STS_RSP a reaction owes to a status
\* request is not a broadcast, and is written even after the 'error'); the
\* 'close' step itself writes nothing to the connection; and a connection that
\* is not in the live set never comes back into it: the only step that adds
\* to the live set is the registration of a newly accepted one.
C35_UnregisterIdempotentClosedTerminal ==
    /\ [](Live \subseteq open \ errored)
    /\ [][\A c \in Conns :
             /\ (c \in errored /\ c \notin open') => Live' = Live
             /\ (c \in errored \/ c \notin open) =>
                    \A i \in DOMAIN lastWrites'[c] :
                        SubSeq(lastWrites'[c][i], 1, TypeLen) \notin BroadcastTypes
             /\ (c \in open /\ c \notin open') => (c \notin Live' /\ lastWrites'[c] = <<>>)
             /\ (c \notin Live /\ c \in Live') => (c \notin open /\ c \in open')
        ]_vars

\* a heartbeat has just been written to a live connection and not to an open
\* connection whose 'error' listener has run
C35_Witness ==
    /\ \E c \in open \ errored : c \in Live /\ lastWrites[c] # <<>>
    /\ \E d \in errored : lastWrites[d] = <<>>
    /\ lastIn.kind = "none"
    /\ lastIn.log # <<>>
    /\ lastIn.log[1].type = <<72, 66, 84, 95, 67, 72, 75>>   \* 'HBT_CHK'

\* C36: a heartbeat tick with an empty live set writes nothing; with a
\* non-empty live set it attempts one write per live connection and writes to
\* each of them whose write succeeds exactly one HBT_CHK frame whose
\* activeClients is the size of the live set when the tick began; nothing is
\* written to a connection outside the live set.
C36_HeartbeatToLiveSet ==
    [][ Heartbeat =>
          /\ Len(lastIn'.log) = Cardinality(Live)
          /\ \A c \in Live \ writeThrows :
                /\ Len(lastWrites'[c]) = 1
                /\ LET m == FrameOfWrite(lastWrites'[c][1]) IN
                   /\ m.ok
                   /\ m.type = <<72, 66, 84, 95, 67, 72, 75>>   \* 'HBT_CHK'
                   /\ Field(m.payload, <<97, 99, 116, 105, 118, 101, 67, 108, 105, 101, 110, 116, 115>>) = JNum(Cardinality(Live))   \* 'activeClients'
          /\ \A c \in Conns \ (Live \ writeThrows) : lastWrites'[c] = <<>>
          /\ Live' = Live \ writeThrows
      ]_vars

\* a heartbeat has just been written to the one live connection while another
\* socket, open but no longer live, got nothing
C36_Witness ==
    /\ lastIn.kind = "none"
    /\ Len(lastIn.log) = 1
    /\ lastIn.log[1].type = <<72, 66, 84, 95, 67, 72, 75>>   \* 'HBT_CHK'
    /\ \E c \in Live :
          /\ Len(lastWrites[c]) = 1
          /\ Field(FrameOfWrite(lastWrites[c][1]).payload, <<97, 99, 116, 105, 118, 101, 67, 108, 105, 101, 110, 116, 115>>) = JNum(1)   \* 'activeClients'
    /\ open \ Live # {}

-----------------------------------------------------------------------------
(* Hub to bridge: what the adapter makes of the hub's writes *)

\* TCPHTTPAdapter.handleTCPResponse(data): the handler the chunk is
\* dispatched to, or "failed" when parseTCPMessage returns null
handleTCPResponse(data) ==
    LET message == parseTCPMessage(data) IN
    IF ~message.ok THEN "failed"
    ELSE CASE message.type = <<83, 84, 83, 95, 82, 83, 80>> -> "handleStatusResponse"   \* 'STS_RSP'
           [] message.type = <<65, 67, 75, 95, 77, 83, 71>> -> "handleAckMessage"   \* 'ACK_MSG'
           [] message.type = <<69, 82, 82, 95, 77, 83, 71>> -> "handleErrorMessage"   \* 'ERR_MSG'
           [] OTHER -> "default"

\* C37: every line the hub writes to a connection (the frame followed by a
\* newline), delivered to the bridge's 'data' listener as one chunk, is parsed
\* by handleTCPResponse and dispatched on its type.
C37_HubWritesParsedByBridge ==
    \A c \in Conns : \A i \in DOMAIN lastWrites[c] :
        handleTCPResponse(lastWrites[c][i]) # "failed"

-----------------------------------------------------------------------------
(* Bridge resources across connection losses *)

\* at most one socket of the adapter is alive at a time
C38_OneSocketInUse == ~crashed => LiveSockets <= 1

\* one loss of a socket (its 'error' followed by its 'close' included)
\* schedules at most one reconnect attempt: only the 'close' event of a
\* destroyed socket sets a timer
C38_OneAttemptPerLoss == [][reconnectTimers' > reconnectTimers => closePending' < closePending]_vars

\* the running adapter has exactly one heartbeat interval
C38_OneHeartbeatTimer == ~crashed => ~staleHeartbeats

\* C38: after any sequence of connection losses and reconnections the running
\* bridge has at most one outbound socket alive and exactly one periodic
\* heartbeat timer.
C38_BoundedBridgeResources ==
    ~crashed => (LiveSockets <= 1 /\ ~staleHeartbeats)

-----------------------------------------------------------------------------
(* Subscriber isolation *)

\* the ids of a list of handlers, in registration order
idsOf(handlers) == [i \in 1..Len(handlers) |-> handlers[i].id]

\* the ids of the handlers of a list that throw, in registration order
RECURSIVE throwingOf(_)
throwingOf(handlers) ==
    IF handlers = <<>> THEN <<>>
    ELSE (IF Head(handlers).throws THEN <<Head(handlers).id>> ELSE <<>>)
             \o throwingOf(Tail(handlers))

\* C39: when updatePackageStatus makes a valid transition of a known package,
\* whatever the registered handlers of package_updated do, the package has the
\* new status and is returned, every one of those handlers is called exactly
\* once in registration order, each exception is logged and none reaches the
\* caller.
C39_SubscriberIsolation ==
    [][ (SubscribedUpdate /\ lastOp'.error = "none") =>
          /\ hasPackage(packages', lastOp'.packageId)
          /\ lastOp'.emitted[1].status = packages'[lastOp'.packageId].status
          /\ packages'[lastOp'.packageId].updatedAt = packages[lastOp'.packageId].updatedAt + 1
          /\ invoked'.called = idsOf(handlersFor(eventHandlers, "package_updated"))
          /\ invoked'.logged = throwingOf(handlersFor(eventHandlers, "package_updated"))
          /\ ~invoked'.threw
      ]_vars

\* a package was updated while the first of two handlers of package_updated
\* throws: both were called, in order, and the exception was logged
C39_Witness ==
    /\ lastOp.op = "update"
    /\ lastOp.error = "none"
    /\ Len(handlersFor(eventHandlers, "package_updated")) = 2
    /\ eventHandlers["package_updated"][1].throws
    /\ ~eventHandlers["package_updated"][2].throws
    /\ invoked.called = <<1, 2>>
    /\ invoked.logged = <<1>>

=============================================================================
